---- MODULE Spec2Model ----
(***************************************************************************)
(* AVM2 object model: the TObject property-dispatch protocol of            *)
(* core/src/avm2/object.rs and the VectorObject specialisation of          *)
(* core/src/avm2/object/vector_object.rs.                                  *)
(*                                                                         *)
(* The heap is a function from object ids to object records.  Every        *)
(* TObject operation is an operator from a machine state [h, a] (heap,     *)
(* allocation counter) to [h, a, r] (new heap, new counter, result), and   *)
(* every action applies one operation and records it in `last`.            *)
(***************************************************************************)
EXTENDS Integers, Sequences, FiniteSets, TLC

VARIABLES heap, alloc, last, cursor, world, walk

vars == <<heap, alloc, last, cursor, world, walk>>

(***************************************************************************)
(* Bounds of the model.                                                    *)
(***************************************************************************)
\* longest vector the initial states hold
MaxLen == 2
\* the objects a walk along the prototype chain keeps a record of
MaxWalk == 5

(***************************************************************************)
(* Values (avm2::value::Value).                                            *)
(***************************************************************************)
Val(t, n) == [t |-> t, n |-> n, s |-> "", recv |-> 0, m |-> "none"]
Undefined == Val("undef", 0)
Null == Val("null", 0)
Num(n) == Val("int", n)
\* a string
Str(s) == [t |-> "str", n |-> 0, s |-> s, recv |-> 0, m |-> "none"]
\* a function object: allocation serial n, bound receiver, method body m
Fn(n, recv, m) == [t |-> "fn", n |-> n, s |-> "", recv |-> recv, m |-> m]

IsObjectValue(v) == v.t = "fn"
\* a reference to the class object of allocation serial n
ClassRef(n) == Val("class", n)
\* a reference to the object with id n
ObjRef(n) == Val("obj", n)

(***************************************************************************)
(* Results (Result<T, Error>).                                             *)
(***************************************************************************)
Ok(v) == [ok |-> TRUE, v |-> v, err |-> "none"]
Err(e) == [ok |-> FALSE, v |-> Undefined, err |-> e]

\* F applied to the value of e, which is evaluated once
Let(e, F(_)) == CHOOSE r \in { F(x) : x \in {e} } : TRUE

\* Option<T>
None == [some |-> FALSE]
Some(x) == [some |-> TRUE, x |-> x]

(***************************************************************************)
(* Names (avm2::names).                                                    *)
(***************************************************************************)
NsPublic == "public"
NsPrivate == "private"
NsAny == "any"

QName(ns, local) == [ns |-> ns, local |-> local]
\* QName::dynamic_name: the public namespace
DynamicName(local) == QName(NsPublic, local)

\* Multiname::local_name() is None
NoLocal == "<no local name>"
Multiname(nsset, local) == [nsset |-> nsset, local |-> local]
\* Multiname::from(QName)
MultinameOf(qn) == Multiname({qn.ns}, qn.local)

\* str::parse::<usize>() on the local names the model uses: the decimal
\* strings, with or without a leading zero
IndexNames ==
  { <<"0", 0>>, <<"1", 1>>, <<"01", 1>>, <<"2", 2>>, <<"3", 3>>, <<"4", 4>> }

ParseUsize(local) ==
  IF \E p \in IndexNames : p[1] = local
    THEN Some((CHOOSE p \in IndexNames : p[1] = local)[2])
    ELSE None

\* the decimal string of a number (Value::coerce_to_string of an integer)
DecimalString(n) ==
  CHOOSE s \in {"0", "1", "2", "3", "4"} : <<s, n>> \in IndexNames

(***************************************************************************)
(* Classes (avm2::class::Class and ClassObject, consumed through their     *)
(* interface): a fixed table of class definitions.                         *)
(***************************************************************************)
NoClass == "none"
ClassIds == {"A", "S", "Meta", "VD", "VS", "B", "G", "F", "T"}

\* Trait: kind, name, slot or dispatch id, default value, method body
Trait(kind, name, id, dflt, m) ==
  [kind |-> kind, name |-> name, id |-> id, dflt |-> dflt, m |-> m]

\* method bodies
BodyM == "m"
BodyCm == "cm"
BodySetter == "setter"
BodyGetter == "getter"
BodyK == "k"
NoBody == "none"
\* the method bodies whose execution throws
ThrowingBodies == {BodySetter}
\* the method bodies that read `arguments` (Method::needs_arguments_object)
ArgumentsBodies == {BodyCm}

ClassTable ==
  [c \in ClassIds |->
    CASE c = "A" ->
           [sealed |-> FALSE, super |-> NoClass,
            itraits |-> << Trait("Method", QName(NsPublic, "m"), 1, Undefined, BodyM),
                           Trait("Slot", QName(NsPrivate, "x"), 1, Num(0), NoBody) >>,
            ctraits |-> << Trait("Method", QName(NsPublic, "m"), 1, Undefined, BodyCm),
                           Trait("Const", QName(NsPrivate, "x"), 1, Num(0), NoBody) >>]
      [] c = "S" ->
           [sealed |-> TRUE, super |-> "A",
            itraits |-> << Trait("Setter", QName(NsPrivate, "m"), 2, Undefined, BodySetter),
                           Trait("Getter", QName(NsPrivate, "g"), 3, Undefined, BodyGetter) >>,
            ctraits |-> << >>]
      [] c = "Meta" ->
           [sealed |-> FALSE, super |-> NoClass,
            itraits |-> << Trait("Method", QName(NsPublic, "k"), 1, Undefined, BodyK) >>,
            ctraits |-> << >>]
      [] c = "F" ->
           \* its getter has the name of the slot that A declares
           [sealed |-> FALSE, super |-> "A",
            itraits |-> << Trait("Slot", QName(NsPrivate, "y"), 2, Num(0), NoBody),
                           Trait("Getter", QName(NsPrivate, "x"), 3, Undefined, BodyGetter),
                           Trait("Slot", QName(NsPublic, "z"), 4, Num(0), NoBody) >>,
            ctraits |-> << >>]
      [] c = "T" ->
           \* one trait of each kind that reserves a slot
           [sealed |-> FALSE, super |-> NoClass,
            itraits |-> << Trait("Slot", QName(NsPublic, "s"), 1, Num(1), NoBody),
                           Trait("Const", QName(NsPublic, "c"), 2, Num(2), NoBody),
                           Trait("Class", QName(NsPublic, "K"), 3, Undefined, NoBody),
                           Trait("Function", QName(NsPublic, "f"), 4, Undefined, NoBody) >>,
            ctraits |-> << >>]
      [] c = "B" ->
           [sealed |-> FALSE, super |-> NoClass, itraits |-> << >>, ctraits |-> << >>]
      [] c = "G" ->
           [sealed |-> FALSE, super |-> NoClass, itraits |-> << >>, ctraits |-> << >>]
      [] c = "VD" ->
           [sealed |-> FALSE, super |-> NoClass, itraits |-> << >>, ctraits |-> << >>]
      [] c = "VS" ->
           \* its private slot has the local name of an index
           [sealed |-> TRUE, super |-> NoClass,
            itraits |-> << Trait("Slot", QName(NsPrivate, "0"), 1, Num(0), NoBody) >>,
            ctraits |-> << >>]]

\* the classes whose method tables cannot be read: every lookup in them
\* fails
BrokenClasses == {"B"}

\* the classes that take type parameters (Class::is_generic)
GenericClasses == {"G"}

\* Class::is_sealed
IsSealed(c) == ClassTable[c].sealed

\* ClassObject::superclass_object
SuperclassObject(c) == ClassTable[c].super

\* a method-table key: by qualified name or by dispatch id
ByName(qn) == [by |-> "name", k |-> qn]
ById(id) == [by |-> "id", k |-> id]
TraitMatches(t, key) == IF key.by = "name" THEN t.name = key.k ELSE t.id = key.k

\* the last trait of kind `kind` in `traits` that matches the key, if any
FindTrait(traits, kind, key) ==
  LET hits == { i \in DOMAIN traits : traits[i].kind = kind /\ TraitMatches(traits[i], key) }
  IN  IF hits = {} THEN None
      ELSE Some(traits[CHOOSE i \in hits : \A j \in hits : i >= j])

RECURSIVE InstanceMethodWhere(_, _)
\* the method table of class c, inherited methods included: the defining
\* class and the method trait
InstanceMethodWhere(c, key) ==
  IF c = NoClass THEN None
  ELSE LET own == FindTrait(ClassTable[c].itraits, "Method", key)
       IN  IF own.some THEN Some([super |-> c, trait |-> own.x])
           ELSE InstanceMethodWhere(ClassTable[c].super, key)

\* ClassObject::instance_method(name)
InstanceMethod(c, qn) ==
  IF c \in BrokenClasses THEN Err("Method lookup failed") ELSE Ok(InstanceMethodWhere(c, ByName(qn)))

\* ClassObject::instance_method_by_id(id)
InstanceMethodById(c, id) ==
  IF c \in BrokenClasses THEN Err("Method lookup failed") ELSE Ok(InstanceMethodWhere(c, ById(id)))

\* ClassObject::class_method(name)
ClassMethod(c, qn) ==
  IF c \in BrokenClasses THEN Err("Method lookup failed")
  ELSE Ok(FindTrait(ClassTable[c].ctraits, "Method", ByName(qn)))

\* ClassObject::class_method_by_id(id)
ClassMethodById(c, id) ==
  IF c \in BrokenClasses THEN Err("Method lookup failed")
  ELSE Ok(FindTrait(ClassTable[c].ctraits, "Method", ById(id)))

RECURSIVE HasInstanceTrait(_, _)
\* whether class c or one of its superclasses declares an instance trait qn
HasInstanceTrait(c, qn) ==
  IF c = NoClass THEN FALSE
  ELSE \/ \E i \in DOMAIN ClassTable[c].itraits : ClassTable[c].itraits[i].name = qn
       \/ HasInstanceTrait(ClassTable[c].super, qn)

HasClassTrait(c, qn) ==
  c # NoClass /\ \E i \in DOMAIN ClassTable[c].ctraits : ClassTable[c].ctraits[i].name = qn

\* Executable::exec of a function object: the body decides the outcome
Exec(fn) ==
  IF fn.m \in ThrowingBodies THEN Err("Thrown") ELSE Ok(Num(0))

(***************************************************************************)
(* Object storage base (ScriptObjectData): property bindings by qualified  *)
(* name, the method table by dispatch id, the enumerant list, the          *)
(* prototype and the class.                                                *)
(***************************************************************************)
NoObj == 0
NoFn == Undefined

Binding(k, v, get, set, id) == [k |-> k, v |-> v, get |-> get, set |-> set, id |-> id]
DynBinding(v) == Binding("dyn", v, NoFn, NoFn, 0)
SlotBinding(id, v) == Binding("slot", v, NoFn, NoFn, id)
ConstBinding(id, v) == Binding("const", v, NoFn, NoFn, id)
MethodBinding(id, fn) == Binding("method", fn, NoFn, NoFn, id)
VirtualBinding(get, set) == Binding("virtual", Undefined, get, set, 0)

EmptyMap == [x \in {} |-> Undefined]

\* ScriptObjectData::base_new(proto, instance_of), as a script object
BaseNew(proto, instance_of) ==
  [kind |-> "script", instance_of |-> instance_of, as_class |-> NoClass,
   proto |-> proto, values |-> EmptyMap, methods |-> EmptyMap,
   enumerants |-> << >>, vector |-> << >>, vtype |-> "none", fixed |-> FALSE,
   applications |-> EmptyMap]

\* the order in which namespaces are listed
NsOrder == << NsPublic, NsPrivate >>

BaseHasOwnInstantiatedProperty(o, qn) == qn \in DOMAIN o.values

BaseHasOwnVirtualSetOnlyProperty(o, qn) ==
  /\ qn \in DOMAIN o.values
  /\ o.values[qn].k = "virtual"
  /\ o.values[qn].get = NoFn
  /\ o.values[qn].set # NoFn

\* traits are resolved on instances (the class's instance traits) and on
\* class objects (the class's own class traits)
BaseHasTrait(o, qn) ==
  \/ HasInstanceTrait(o.instance_of, qn)
  \/ HasClassTrait(o.as_class, qn)

BaseHasOwnProperty(o, qn) == Ok(qn \in DOMAIN o.values \/ BaseHasTrait(o, qn))

\* the namespaces with an own binding of that local name, then those with
\* a trait of that local name
BaseResolveNs(o, local) ==
  LET own(ns) == QName(ns, local) \in DOMAIN o.values
      trait(ns) == ~own(ns) /\ BaseHasTrait(o, QName(ns, local))
  IN  Ok(SelectSeq(NsOrder, own) \o SelectSeq(NsOrder, trait))

\* Property::get followed by ReturnValue::resolve: a getter runs
BaseGetPropertyLocal(o, qn) ==
  IF qn \notin DOMAIN o.values THEN Ok(Undefined)
  ELSE LET b == o.values[qn]
       IN  IF b.k = "virtual"
             THEN IF b.get = NoFn THEN Ok(Undefined) ELSE Exec(b.get)
             ELSE Ok(b.v)

\* the write shared by set and init: an absent name becomes a dynamic,
\* enumerable binding; a method binding is read-only; a setter runs
BaseWrite(o, qn, v) ==
  IF qn \notin DOMAIN o.values
    THEN [o |-> [o EXCEPT !.values = (qn :> DynBinding(v)) @@ o.values,
                          !.enumerants = Append(o.enumerants, qn)],
          r |-> Ok(Undefined)]
  ELSE LET b == o.values[qn]
       IN  CASE b.k \in {"dyn", "slot", "const"} ->
                  [o |-> [o EXCEPT !.values[qn].v = v], r |-> Ok(Undefined)]
             [] b.k = "method" -> [o |-> o, r |-> Ok(Undefined)]
             [] OTHER ->
                  [o |-> o, r |-> IF b.set = NoFn THEN Ok(Undefined) ELSE Exec(b.set)]

BaseSetPropertyLocal(o, qn, v) == BaseWrite(o, qn, v)

BaseInitPropertyLocal(o, qn, v) == BaseWrite(o, qn, v)

\* only dynamic bindings can be deleted
BaseDeleteProperty(o, qn) ==
  IF qn \in DOMAIN o.values /\ o.values[qn].k = "dyn"
    THEN [o |-> [o EXCEPT
                   !.values = [q \in DOMAIN o.values \ {qn} |-> o.values[q]],
                   !.enumerants = SelectSeq(o.enumerants, LAMBDA q : q # qn)],
          r |-> TRUE]
    ELSE [o |-> o, r |-> FALSE]

BaseGetMethod(o, id) == IF id \in DOMAIN o.methods THEN Some(o.methods[id]) ELSE None

BaseInstallMethod(o, qn, disp_id, fn) ==
  [o EXCEPT !.values = (qn :> MethodBinding(disp_id, fn)) @@ o.values,
            !.methods = IF disp_id > 0 THEN (disp_id :> fn) @@ o.methods ELSE o.methods]

\* a getter and a setter of one name share one virtual binding; a name
\* that holds a slot, a const, a method or a dynamic property holds that
\* alone, and no getter or setter can be installed under it
BaseInstallGetter(o, qn, disp_id, fn) ==
  IF qn \in DOMAIN o.values /\ o.values[qn].k # "virtual"
    THEN [o |-> o, r |-> Err("Not a virtual property")]
  ELSE LET old == IF qn \in DOMAIN o.values THEN o.values[qn]
                  ELSE VirtualBinding(NoFn, NoFn)
       IN  [o |-> [o EXCEPT !.values = (qn :> [old EXCEPT !.get = fn]) @@ o.values,
                            !.methods = IF disp_id > 0 THEN (disp_id :> fn) @@ o.methods
                                        ELSE o.methods],
            r |-> Ok(Undefined)]

BaseInstallSetter(o, qn, disp_id, fn) ==
  IF qn \in DOMAIN o.values /\ o.values[qn].k # "virtual"
    THEN [o |-> o, r |-> Err("Not a virtual property")]
  ELSE LET old == IF qn \in DOMAIN o.values THEN o.values[qn]
                  ELSE VirtualBinding(NoFn, NoFn)
       IN  [o |-> [o EXCEPT !.values = (qn :> [old EXCEPT !.set = fn]) @@ o.values,
                            !.methods = IF disp_id > 0 THEN (disp_id :> fn) @@ o.methods
                                        ELSE o.methods],
            r |-> Ok(Undefined)]

BaseInstallSlot(o, qn, id, v) ==
  [o EXCEPT !.values = (qn :> SlotBinding(id, v)) @@ o.values]

BaseInstallConst(o, qn, id, v) ==
  [o EXCEPT !.values = (qn :> ConstBinding(id, v)) @@ o.values]

\* the value stored at a slot id, whichever name the slot has; the traits
\* of a class give each slot id to one name
BaseGetSlot(o, id) ==
  LET held == { qn \in DOMAIN o.values :
                  o.values[qn].k \in {"slot", "const"} /\ o.values[qn].id = id }
  IN  IF held = {} THEN Err("Slot index out of bounds")
      ELSE Ok(o.values[CHOOSE qn \in held : TRUE].v)

\* the enumerant cursor: index i names the i-th enumerant, 0 is the start
BaseGetNextEnumerant(o, last_index) ==
  IF last_index < Len(o.enumerants) THEN Some(last_index + 1) ELSE None

BaseGetEnumerantName(o, index) ==
  IF index >= 1 /\ index <= Len(o.enumerants)
    THEN Some(Str(o.enumerants[index].local)) ELSE None

\* the name is one of the object's enumerants
BasePropertyIsEnumerable(o, qn) ==
  \E i \in DOMAIN o.enumerants : o.enumerants[i] = qn

(***************************************************************************)
(* Vector storage (avm2::vector::VectorStorage).                           *)
(***************************************************************************)
VectorLength(o) == Len(o.vector)
VectorIsInRange(o, index) == index < Len(o.vector)
VectorGet(o, index) ==
  IF index < Len(o.vector) THEN Some(o.vector[index + 1]) ELSE None
VectorValueType(o) == o.vtype

\* the element type's default value: zero for int, null for object types
VectorDefault(o) == IF o.vtype = "int" THEN Num(0) ELSE Null

\* a write at an index in range replaces the element; a write at the
\* length of a vector that is not fixed appends; any other is a RangeError
VectorSet(o, pos, v) ==
  IF pos < Len(o.vector)
    THEN [o |-> [o EXCEPT !.vector[pos + 1] = v], r |-> Ok(Undefined)]
  ELSE IF pos = Len(o.vector) /\ ~o.fixed
    THEN [o |-> [o EXCEPT !.vector = Append(o.vector, v)], r |-> Ok(Undefined)]
  ELSE [o |-> o, r |-> Err("RangeError")]

\* Value::coerce_to_type: to int, or to a class type
CoerceToType(v, type) ==
  IF type = "int"
    THEN IF v.t = "int" THEN Ok(v)
         ELSE IF v.t = "str" /\ ParseUsize(v.s).some THEN Ok(Num(ParseUsize(v.s).x))
         ELSE Ok(Num(0))
  ELSE \* the class Object
    IF v.t = "undef" THEN Ok(Null) ELSE Ok(v)

(***************************************************************************)
(* TObject: accessors of the object's base.                                *)
(***************************************************************************)
proto(h, self) == h[self].proto

instance_of(h, self) == h[self].instance_of

\* instance_of_class_definition().map(|c| c.read().is_sealed()).unwrap_or(false)
instance_is_sealed(h, self) ==
  IF instance_of(h, self) = NoClass THEN FALSE ELSE IsSealed(instance_of(h, self))

\* None, except for class objects
as_class_object(h, self) == h[self].as_class

as_vector_storage(h, self) == h[self].kind = "vector"

\* the result of an operation: the heap and allocation counter it leaves,
\* and the value or error it returns
Done(h, a, r) == [h |-> h, a |-> a, r |-> r]

(***************************************************************************)
(* Name-keyed structural access: the defaults of TObject and the           *)
(* overrides of VectorObject.                                              *)
(***************************************************************************)
\* Namespace::is_package("")
is_public_package(ns) == ns = NsPublic

\* whether a qualified name is intercepted as a vector index
is_index_name(name) == is_public_package(name.ns) /\ ParseUsize(name.local).some

TObject_resolve_ns(h, self, local_name) == BaseResolveNs(h[self], local_name)

\* resolve_ns listing the public namespace for every index, in range or not
VectorObject_resolve_ns_unranged(h, self, local_name) ==
  Let(BaseResolveNs(h[self], local_name).v, LAMBDA ns_set :
    IF ~(\E i \in DOMAIN ns_set : ns_set[i] = NsPublic) /\ ParseUsize(local_name).some
      THEN Ok(Append(ns_set, NsPublic))
      ELSE Ok(ns_set))

VectorObject_resolve_ns(h, self, local_name) ==
  Let(BaseResolveNs(h[self], local_name).v, LAMBDA ns_set :
    Let(ParseUsize(local_name), LAMBDA index :
      IF /\ ~(\E i \in DOMAIN ns_set : ns_set[i] = NsPublic)
         /\ index.some
         /\ VectorIsInRange(h[self], index.x)
        THEN Ok(Append(ns_set, NsPublic))
        ELSE Ok(ns_set)))

resolve_ns(h, self, local_name) ==
  IF as_vector_storage(h, self)
    THEN VectorObject_resolve_ns(h, self, local_name)
    ELSE TObject_resolve_ns(h, self, local_name)

TObject_has_own_property(h, self, name) == BaseHasOwnProperty(h[self], name)

VectorObject_has_own_property(h, self, name) ==
  IF is_index_name(name)
    THEN Ok(VectorIsInRange(h[self], ParseUsize(name.local).x))
    ELSE BaseHasOwnProperty(h[self], name)

has_own_property(h, self, name) ==
  IF as_vector_storage(h, self)
    THEN VectorObject_has_own_property(h, self, name)
    ELSE TObject_has_own_property(h, self, name)

TObject_get_property_local(h, self, receiver, name) ==
  BaseGetPropertyLocal(h[self], name)

\* the vector read with the type's default for an index out of range
VectorObject_get_property_local_default(h, self, receiver, name) ==
  IF is_index_name(name)
    THEN Let(VectorGet(h[self], ParseUsize(name.local).x), LAMBDA elem :
           Ok(IF elem.some THEN elem.x ELSE VectorDefault(h[self])))
    ELSE BaseGetPropertyLocal(h[self], name)

VectorObject_get_property_local(h, self, receiver, name) ==
  IF is_index_name(name)
    THEN Let(VectorGet(h[self], ParseUsize(name.local).x), LAMBDA elem :
           Ok(IF elem.some THEN elem.x ELSE Undefined))
    ELSE BaseGetPropertyLocal(h[self], name)

get_property_local(h, self, receiver, name) ==
  IF as_vector_storage(h, self)
    THEN VectorObject_get_property_local(h, self, receiver, name)
    ELSE TObject_get_property_local(h, self, receiver, name)

\* the heap with object `self` replaced by the outcome of a base write
WithObject(h, a, self, write) ==
  Let(write, LAMBDA w : Done([h EXCEPT ![self] = w.o], a, w.r))

\* set_property_local writing where the binding was found: to the
\* prototype when the object has no own binding of the name
TObject_set_property_local_inherited(h, a, self, receiver, name, value) ==
  IF ~BaseHasOwnInstantiatedProperty(h[self], name) /\ proto(h, self) # NoObj
    THEN WithObject(h, a, proto(h, self),
                    BaseSetPropertyLocal(h[proto(h, self)], name, value))
    ELSE WithObject(h, a, self, BaseSetPropertyLocal(h[self], name, value))

TObject_set_property_local(h, a, self, receiver, name, value) ==
  WithObject(h, a, self, BaseSetPropertyLocal(h[self], name, value))

\* the element written by VectorObject's set and init: the value coerced
\* to the element type, undefined and null replaced by the default
vector_coerced_element(o, value) ==
  Let(CoerceToType(value, VectorValueType(o)), LAMBDA c :
    IF ~c.ok THEN c
    ELSE IF c.v = Undefined \/ c.v = Null THEN Ok(VectorDefault(o))
    ELSE c)

\* the vector write without the coercion to the element type
VectorObject_set_property_local_uncoerced(h, a, self, receiver, name, value) ==
  IF is_index_name(name)
    THEN WithObject(h, a, self,
                    VectorSet(h[self], ParseUsize(name.local).x,
                              IF value = Undefined \/ value = Null
                                THEN VectorDefault(h[self]) ELSE value))
    ELSE WithObject(h, a, self, BaseSetPropertyLocal(h[self], name, value))

\* the vector write that leaves every name to the base storage
VectorObject_set_property_local_unintercepted(h, a, self, receiver, name, value) ==
  WithObject(h, a, self, BaseSetPropertyLocal(h[self], name, value))

VectorObject_set_property_local(h, a, self, receiver, name, value) ==
  IF is_index_name(name)
    THEN Let(vector_coerced_element(h[self], value), LAMBDA c :
           IF ~c.ok THEN Done(h, a, c)
           ELSE WithObject(h, a, self,
                           VectorSet(h[self], ParseUsize(name.local).x, c.v)))
    ELSE WithObject(h, a, self, BaseSetPropertyLocal(h[self], name, value))

set_property_local(h, a, self, receiver, name, value) ==
  IF as_vector_storage(h, self)
    THEN VectorObject_set_property_local(h, a, self, receiver, name, value)
    ELSE TObject_set_property_local(h, a, self, receiver, name, value)

TObject_init_property_local(h, a, self, receiver, name, value) ==
  WithObject(h, a, self, BaseInitPropertyLocal(h[self], name, value))

\* the vector initialisation storing the value as it was given
VectorObject_init_property_local_raw(h, a, self, receiver, name, value) ==
  IF is_index_name(name)
    THEN WithObject(h, a, self,
                    VectorSet(h[self], ParseUsize(name.local).x, value))
    ELSE WithObject(h, a, self, BaseInitPropertyLocal(h[self], name, value))

VectorObject_init_property_local(h, a, self, receiver, name, value) ==
  IF is_index_name(name)
    THEN Let(vector_coerced_element(h[self], value), LAMBDA c :
           IF ~c.ok THEN Done(h, a, c)
           ELSE WithObject(h, a, self,
                           VectorSet(h[self], ParseUsize(name.local).x, c.v)))
    ELSE WithObject(h, a, self, BaseInitPropertyLocal(h[self], name, value))

init_property_local(h, a, self, receiver, name, value) ==
  IF as_vector_storage(h, self)
    THEN VectorObject_init_property_local(h, a, self, receiver, name, value)
    ELSE TObject_init_property_local(h, a, self, receiver, name, value)

TObject_delete_property_local(h, a, self, name) ==
  Let(BaseDeleteProperty(h[self], name), LAMBDA d :
    Done([h EXCEPT ![self] = d.o], a, Ok(d.r)))

VectorObject_delete_property_local(h, a, self, name) ==
  IF is_index_name(name)
    THEN Done(h, a, Ok(TRUE))
    ELSE TObject_delete_property_local(h, a, self, name)

delete_property_local(h, a, self, name) ==
  IF as_vector_storage(h, self)
    THEN VectorObject_delete_property_local(h, a, self, name)
    ELSE TObject_delete_property_local(h, a, self, name)

\* install_method that installs nothing
install_method_nothing(h, self, name, disp_id, function) == h

install_method(h, self, name, disp_id, function) ==
  [h EXCEPT ![self] = BaseInstallMethod(h[self], name, disp_id, function)]

(***************************************************************************)
(* Multiname resolution.                                                   *)
(***************************************************************************)
\* the first namespace of matching_set that the namespace set contains
\* first_match that finds no candidate in the namespace set
first_match_none(matching_set, nsset) ==
  None

first_match(matching_set, nsset) ==
  Let({ i \in DOMAIN matching_set : matching_set[i] \in nsset }, LAMBDA hits :
    IF hits = {} THEN None
    ELSE Some(matching_set[CHOOSE i \in hits : \A j \in hits : i <= j]))

\* one call of resolve_multiname up to its tail call: Some(result) when it
\* returns, None when it goes on with proto.resolve_multiname(multiname)
resolve_multiname_frame(h, self, multiname) ==
  Let(IF multiname.local # NoLocal
        THEN resolve_ns(h, self, multiname.local).v
        ELSE << >>, LAMBDA matching_set :
    Let(first_match(matching_set, multiname.nsset), LAMBDA hit :
      IF multiname.local # NoLocal /\ hit.some
        THEN Some(Ok(Some(QName(hit.x, multiname.local))))
      ELSE IF NsAny \in multiname.nsset
        THEN Some(Ok(IF matching_set = << >> THEN None
                     ELSE Some(QName(matching_set[1], multiname.local))))
      ELSE IF proto(h, self) # NoObj
        THEN None
      ELSE Some(Ok(None))))

RECURSIVE resolve_multiname(_, _, _)
resolve_multiname(h, self, multiname) ==
  Let(resolve_multiname_frame(h, self, multiname), LAMBDA frame :
    IF frame.some THEN frame.x
    ELSE resolve_multiname(h, proto(h, self), multiname))

(***************************************************************************)
(* Lazy method binding (ClassObject::bound_instance_method and friends):   *)
(* a fresh function object, bound to the receiver, with the dispatch id.   *)
(***************************************************************************)
\* the function object bound for a method trait
bound(a, receiver, trait) ==
  Some([fn |-> Fn(a + 1, receiver, trait.m), disp_id |-> trait.id,
        name |-> trait.name])

\* the bound_* lookups fail when the lookup in the method table fails
bound_instance_method(a, class, receiver, name) ==
  Let(InstanceMethod(class, name), LAMBDA m :
    IF ~m.ok THEN m
    ELSE IF m.v.some THEN Ok(bound(a, receiver, m.v.x.trait)) ELSE Ok(None))

bound_class_method(a, class, receiver, name) ==
  Let(ClassMethod(class, name), LAMBDA m :
    IF ~m.ok THEN m
    ELSE IF m.v.some THEN Ok(bound(a, receiver, m.v.x)) ELSE Ok(None))

bound_instance_method_by_id(a, class, receiver, id) ==
  Let(InstanceMethodById(class, id), LAMBDA m :
    IF ~m.ok THEN m
    ELSE IF m.v.some THEN Ok(bound(a, receiver, m.v.x.trait)) ELSE Ok(None))

bound_class_method_by_id(a, class, receiver, id) ==
  Let(ClassMethodById(class, id), LAMBDA m :
    IF ~m.ok THEN m
    ELSE IF m.v.some THEN Ok(bound(a, receiver, m.v.x)) ELSE Ok(None))

(***************************************************************************)
(* getproperty                                                             *)
(***************************************************************************)
\* get_property_undef without the test for a sealed class
get_property_undef_lenient(h, self, receiver, multiname) == Ok(Undefined)

get_property_undef(h, self, receiver, multiname) ==
  IF ~instance_is_sealed(h, self)
    THEN Ok(Undefined)
    ELSE Err("Cannot get undefined property")

\* lazy_bound_method that finds no method to bind
lazy_bound_method_none(h, a, self, receiver, name) ==
  Ok(None)

\* the lazily bound method get_property installs for `name`, if any: the
\* instance class is asked first, then the class object's own class
lazy_bound_method(h, a, self, receiver, name) ==
  IF BaseHasOwnInstantiatedProperty(h[self], name) THEN Ok(None)
  ELSE Let(IF instance_of(h, self) # NoClass
             THEN bound_instance_method(a, instance_of(h, self), receiver, name)
             ELSE Ok(None), LAMBDA im :
         IF ~im.ok \/ im.v.some THEN im
         ELSE IF as_class_object(h, self) # NoClass
           THEN bound_class_method(a, as_class_object(h, self), self, name)
           ELSE Ok(None))

\* get_property_own that reads an own binding that has only a setter
get_property_own_reading(h, a, self, receiver, name) ==
  Let(lazy_bound_method(h, a, self, receiver, name), LAMBDA lazy :
    IF ~lazy.ok THEN Some(Done(h, a, lazy))
    ELSE IF lazy.v.some
      THEN Some(Done(install_method(h, self, name, lazy.v.x.disp_id, lazy.v.x.fn),
                     a + 1, Ok(lazy.v.x.fn)))
    ELSE IF has_own_property(h, self, name).v
      THEN Some(Done(h, a, get_property_local(h, self, receiver, name)))
    ELSE None)

\* get_property once the multiname has resolved to `name`, up to the
\* delegation to the prototype: Some(outcome), or None to delegate
get_property_own(h, a, self, receiver, name) ==
  Let(lazy_bound_method(h, a, self, receiver, name), LAMBDA lazy :
    IF ~lazy.ok THEN Some(Done(h, a, lazy))
    ELSE IF lazy.v.some
      THEN Some(Done(install_method(h, self, name, lazy.v.x.disp_id, lazy.v.x.fn),
                     a + 1, Ok(lazy.v.x.fn)))
    ELSE IF /\ has_own_property(h, self, name).v
            /\ ~BaseHasOwnVirtualSetOnlyProperty(h[self], name)
      THEN Some(Done(h, a, get_property_local(h, self, receiver, name)))
    ELSE None)

\* get_property_frame defining the name it does not find on a dynamic object
get_property_frame_defining(h, a, self, receiver, multiname, resolved) ==
  IF ~resolved.ok THEN Some(Done(h, a, resolved))
  ELSE IF ~resolved.v.some
    THEN IF ~instance_is_sealed(h, self) /\ multiname.local # NoLocal
           THEN Some(Done([h EXCEPT ![self] =
                             BaseInitPropertyLocal(h[self], DynamicName(multiname.local),
                                                   Undefined).o],
                          a, Ok(Undefined)))
           ELSE Some(Done(h, a, get_property_undef(h, self, receiver, multiname)))
  ELSE Let(get_property_own(h, a, self, receiver, resolved.v.x), LAMBDA own :
         IF own.some THEN own
         ELSE IF proto(h, self) # NoObj
           THEN None
         ELSE Some(Done(h, a, Ok(Undefined))))

\* one call of get_property after its resolve_multiname returned
\* `resolved`, up to its tail call: Some(outcome) when it returns, None
\* when it goes on with proto.get_property(receiver, multiname)
get_property_frame(h, a, self, receiver, multiname, resolved) ==
  IF ~resolved.ok THEN Some(Done(h, a, resolved))
  ELSE IF ~resolved.v.some
    THEN Some(Done(h, a, get_property_undef(h, self, receiver, multiname)))
  ELSE Let(get_property_own(h, a, self, receiver, resolved.v.x), LAMBDA own :
         IF own.some THEN own
         ELSE IF proto(h, self) # NoObj
           THEN None
         ELSE Some(Done(h, a, Ok(Undefined))))

RECURSIVE get_property(_, _, _, _, _)
get_property(h, a, self, receiver, multiname) ==
  Let(get_property_frame(h, a, self, receiver, multiname,
                         resolve_multiname(h, self, multiname)), LAMBDA frame :
    IF frame.some THEN frame.x
    ELSE get_property(h, a, proto(h, self), receiver, multiname))

(***************************************************************************)
(* setproperty and initproperty                                            *)
(***************************************************************************)
\* set_property_undef qualifying the new name in the private namespace
set_property_undef_private(h, self, receiver, multiname, value) ==
  IF ~instance_is_sealed(h, self)
    THEN IF multiname.local = NoLocal
           THEN Err("Cannot set undefined property using any name")
           ELSE Ok(Some(QName(NsPrivate, multiname.local)))
    ELSE Err("Cannot set undefined property")

set_property_undef(h, self, receiver, multiname, value) ==
  IF ~instance_is_sealed(h, self)
    THEN IF multiname.local = NoLocal
           THEN Err("Cannot set undefined property using any name")
           ELSE Ok(Some(DynamicName(multiname.local)))
    ELSE Err("Cannot set undefined property")

\* write_target that stores nothing for an unresolved multiname, without
\* asking the undefined-name hook
write_target_unhooked(h, self, receiver, multiname, value) ==
  Let(resolve_multiname(h, self, multiname), LAMBDA resolved :
    IF ~resolved.ok THEN resolved
    ELSE IF ~resolved.v.some THEN Ok(None)
    ELSE resolved)

\* the name a write targets: the resolved name, or the one the
\* undefined-name hook supplies
write_target(h, self, receiver, multiname, value) ==
  Let(resolve_multiname(h, self, multiname), LAMBDA resolved :
    IF ~resolved.ok THEN resolved
    ELSE IF ~resolved.v.some
      THEN set_property_undef(h, self, receiver, multiname, value)
    ELSE resolved)

\* the guard applied only while the method has not been bound
is_method_name_unbound(h, self, name) ==
  IF BaseHasOwnInstantiatedProperty(h[self], name) THEN Ok(FALSE)
  ELSE Let(IF instance_of(h, self) # NoClass
             THEN InstanceMethod(instance_of(h, self), name)
             ELSE Ok(None), LAMBDA im :
         IF ~im.ok THEN im
         ELSE IF im.v.some THEN Ok(TRUE)
         ELSE Let(IF as_class_object(h, self) # NoClass
                    THEN ClassMethod(as_class_object(h, self), name)
                    ELSE Ok(None), LAMBDA cm :
                IF ~cm.ok THEN cm ELSE Ok(cm.v.some)))

\* the guard of set_property and init_property against overwriting a
\* method of the instance class or of the class object; a failing lookup
\* fails the guard
is_method_name(h, self, name) ==
  Let(IF instance_of(h, self) # NoClass
        THEN InstanceMethod(instance_of(h, self), name)
        ELSE Ok(None), LAMBDA im :
    IF ~im.ok THEN im
    ELSE IF im.v.some THEN Ok(TRUE)
    ELSE Let(IF as_class_object(h, self) # NoClass
               THEN ClassMethod(as_class_object(h, self), name)
               ELSE Ok(None), LAMBDA cm :
           IF ~cm.ok THEN cm ELSE Ok(cm.v.some)))

set_property(h, a, self, receiver, multiname, value) ==
  Let(write_target(h, self, receiver, multiname, value), LAMBDA name :
    IF ~name.ok THEN Done(h, a, name)
    ELSE IF ~name.v.some THEN Done(h, a, Ok(Undefined))
    ELSE Let(is_method_name(h, self, name.v.x), LAMBDA method :
           IF ~method.ok THEN Done(h, a, method)
           ELSE IF method.v
             THEN Done(h, a, Err("Cannot overwrite read-only property"))
           ELSE set_property_local(h, a, self, receiver, name.v.x, value)))

init_property(h, a, self, receiver, multiname, value) ==
  Let(write_target(h, self, receiver, multiname, value), LAMBDA name :
    IF ~name.ok THEN Done(h, a, name)
    ELSE IF ~name.v.some THEN Done(h, a, Ok(Undefined))
    ELSE Let(is_method_name(h, self, name.v.x), LAMBDA method :
           IF ~method.ok THEN Done(h, a, method)
           ELSE IF method.v
             THEN Done(h, a, Err("Cannot overwrite read-only property"))
           ELSE init_property_local(h, a, self, receiver, name.v.x, value)))

(***************************************************************************)
(* deleteproperty, has_property                                            *)
(***************************************************************************)
\* delete_property_undef without the test for a sealed class
delete_property_undef_lenient(h, self, multiname) ==
  Ok(TRUE)

delete_property_undef(h, self, multiname) ==
  Ok(~instance_is_sealed(h, self))

\* the guard of delete_property against deleting a method that has not
\* been bound yet; a failed lookup counts as no method
\* (Result::map(is_some).unwrap_or(false))
is_unbound_method_name(h, self, name) ==
  /\ ~BaseHasOwnInstantiatedProperty(h[self], name)
  /\ \/ /\ instance_of(h, self) # NoClass
        /\ InstanceMethod(instance_of(h, self), name).ok
        /\ InstanceMethod(instance_of(h, self), name).v.some
     \/ /\ as_class_object(h, self) # NoClass
        /\ ClassMethod(as_class_object(h, self), name).ok
        /\ ClassMethod(as_class_object(h, self), name).v.some

\* delete_property reporting a removal where the guard applies
delete_property_reporting(h, a, self, multiname) ==
  Let(resolve_multiname(h, self, multiname), LAMBDA resolved :
    IF ~resolved.ok THEN Done(h, a, resolved)
    ELSE IF ~resolved.v.some
      THEN Done(h, a, delete_property_undef(h, self, multiname))
    ELSE IF is_unbound_method_name(h, self, resolved.v.x)
      THEN Done(h, a, Ok(TRUE))
    ELSE delete_property_local(h, a, self, resolved.v.x))

delete_property(h, a, self, multiname) ==
  Let(resolve_multiname(h, self, multiname), LAMBDA resolved :
    IF ~resolved.ok THEN Done(h, a, resolved)
    ELSE IF ~resolved.v.some
      THEN Done(h, a, delete_property_undef(h, self, multiname))
    ELSE IF is_unbound_method_name(h, self, resolved.v.x)
      THEN Done(h, a, Ok(FALSE))
    ELSE delete_property_local(h, a, self, resolved.v.x))

\* has_property that asks the whole prototype chain
RECURSIVE has_property_chain(_, _, _)
has_property_chain(h, self, name) ==
  IF has_own_property(h, self, name).v THEN Ok(TRUE)
  ELSE IF proto(h, self) # NoObj
    THEN has_property_chain(h, proto(h, self), name)
  ELSE Ok(FALSE)

\* has_property that does not ask the prototype
has_property_own(h, self, name) == Ok(has_own_property(h, self, name).v)

has_property(h, self, name) ==
  IF has_own_property(h, self, name).v THEN Ok(TRUE)
  ELSE IF proto(h, self) # NoObj
    THEN Ok(has_own_property(h, proto(h, self), name).v)
  ELSE Ok(FALSE)

(***************************************************************************)
(* callmethod                                                              *)
(***************************************************************************)
\* the lazy binding of call_method by the instance class: the heap and
\* allocation counter it leaves
call_method_bind_instance(h, a, self, id) ==
  Let(IF instance_of(h, self) # NoClass
        THEN bound_instance_method_by_id(a, instance_of(h, self), self, id)
        ELSE Ok(None), LAMBDA im :
    IF ~im.ok THEN Done(h, a, im)
    ELSE IF im.v.some
      THEN Done(install_method(h, self, im.v.x.name, id, im.v.x.fn), a + 1,
                Ok(Undefined))
      ELSE Done(h, a, Ok(Undefined)))

\* the lazy binding of call_method by the class object's own class
call_method_bind_class(h, a, self, id) ==
  Let(IF as_class_object(h, self) # NoClass
        THEN bound_class_method_by_id(a, as_class_object(h, self), self, id)
        ELSE Ok(None), LAMBDA cm :
    IF ~cm.ok THEN Done(h, a, cm)
    ELSE IF cm.v.some
      THEN Done(install_method(h, self, cm.v.x.name, id, cm.v.x.fn), a + 1,
                Ok(Undefined))
      ELSE Done(h, a, Ok(Undefined)))

\* call_method_invoke returning undefined where there is no method object
call_method_invoke_silent(h, a, self, id) ==
  Let(BaseGetMethod(h[self], id), LAMBDA method_object :
    IF method_object.some
      THEN Done(h, a, Exec(method_object.x))
      ELSE Done(h, a, Ok(Undefined)))

\* the call of the method object at `id`, if there is one
call_method_invoke(h, a, self, id) ==
  Let(BaseGetMethod(h[self], id), LAMBDA method_object :
    IF method_object.some
      THEN Done(h, a, Exec(method_object.x))
      ELSE Done(h, a, Err("Cannot call unknown method id")))

\* call_method binding the method anew whether or not the object has a
\* method at the id
call_method_rebinding(h, a, self, id) ==
  Let(call_method_bind_instance(h, a, self, id), LAMBDA s1 :
    IF ~s1.r.ok THEN s1
    ELSE Let(call_method_bind_class(s1.h, s1.a, self, id), LAMBDA s2 :
           IF ~s2.r.ok THEN s2
           ELSE call_method_invoke(s2.h, s2.a, self, id)))

call_method(h, a, self, id) ==
  IF ~BaseGetMethod(h[self], id).some
    THEN Let(call_method_bind_instance(h, a, self, id), LAMBDA s1 :
           IF ~s1.r.ok THEN s1
           ELSE Let(call_method_bind_class(s1.h, s1.a, self, id), LAMBDA s2 :
                  IF ~s2.r.ok THEN s2
                  ELSE call_method_invoke(s2.h, s2.a, self, id)))
    ELSE call_method_invoke(h, a, self, id)

(***************************************************************************)
(* callproperty                                                            *)
(***************************************************************************)
call_property_undef(h, self, multiname) ==
  Err("Attempted to call undefined property")

\* Value::coerce_to_object: undefined and null are not objects
CoerceToObject(v) ==
  IF v \in {Undefined, Null} THEN Err("Cannot coerce to object") ELSE Ok(v)

\* TObject::call: only function objects are callable
call(function) ==
  IF IsObjectValue(function) THEN Exec(function) ELSE Err("Object is not callable")

call_property(h, a, self, multiname) ==
  Let(resolve_multiname(h, self, multiname), LAMBDA name :
    IF ~name.ok THEN Done(h, a, name)
    ELSE IF ~name.v.some THEN Done(h, a, call_property_undef(h, self, multiname))
    ELSE Let(IF instance_of(h, self) # NoClass
               THEN InstanceMethod(instance_of(h, self), name.v.x)
               ELSE Ok(None), LAMBDA im :
           IF ~im.ok THEN Done(h, a, im)
           ELSE IF im.v.some /\ im.v.x.trait.m \notin ArgumentsBodies
             THEN Done(h, a, Exec(Fn(0, self, im.v.x.trait.m)))
           ELSE Let(IF as_class_object(h, self) # NoClass
                      THEN ClassMethod(as_class_object(h, self), name.v.x)
                      ELSE Ok(None), LAMBDA cm :
                  IF ~cm.ok THEN Done(h, a, cm)
                  ELSE IF cm.v.some /\ cm.v.x.m \notin ArgumentsBodies
                    THEN Done(h, a, Exec(Fn(0, self, cm.v.x.m)))
                  ELSE Let(get_property(h, a, self, self, multiname), LAMBDA got :
                         IF ~got.r.ok THEN got
                         ELSE Let(CoerceToObject(got.r.v), LAMBDA function :
                                IF ~function.ok
                                  THEN Done(got.h, got.a,
                                            Err("Attempted to call undefined property"))
                                  ELSE Done(got.h, got.a, call(function.v)))))))

(***************************************************************************)
(* Type application                                                        *)
(***************************************************************************)
\* apply answering with a class object for any object
TObject_apply_lenient(h, a, self, param) ==
  Done(h, a, Ok(ClassRef(0)))

TObject_apply(h, a, self, param) ==
  Done(h, a, Err("Not a parameterized type"))

\* ClassObject::apply: one class object per parameter, made on the first
\* application and kept in the class object's table of applications
ClassObject_apply(h, a, self, param) ==
  IF as_class_object(h, self) \notin GenericClasses
    THEN Done(h, a, Err("Class is not generic"))
  ELSE IF param \in DOMAIN h[self].applications
    THEN Done(h, a, Ok(h[self].applications[param]))
  ELSE Done([h EXCEPT ![self].applications = (param :> ClassRef(a + 1)) @@ @],
            a + 1, Ok(ClassRef(a + 1)))

apply(h, a, self, param) ==
  IF as_class_object(h, self) # NoClass
    THEN ClassObject_apply(h, a, self, param)
    ELSE TObject_apply(h, a, self, param)

(***************************************************************************)
(* The prototype chain: set_proto, has_prototype_in_chain, is_instance_of. *)
(***************************************************************************)
set_proto(h, self, p) == [h EXCEPT ![self].proto = p]

\* a walk that stays at the object it is at
walk_on_the_spot(h, at) == at

\* the object a walk along the chain goes on with: proto.proto()
walk_on(h, at) ==
  proto(h, at)

\* one turn of the loop of has_prototype_in_chain with my_proto at hand:
\* Some(result) when the loop is left, None when it goes on with the
\* prototype of my_proto
has_prototype_in_chain_frame(h, my_proto, type_proto) ==
  IF my_proto = NoObj THEN Some(Ok(FALSE))
  ELSE IF ObjRef(my_proto) = type_proto THEN Some(Ok(TRUE))
  ELSE None

RECURSIVE has_prototype_in_chain_from(_, _, _)
has_prototype_in_chain_from(h, my_proto, type_proto) ==
  Let(has_prototype_in_chain_frame(h, my_proto, type_proto), LAMBDA frame :
    IF frame.some THEN frame.x
    ELSE has_prototype_in_chain_from(h, proto(h, my_proto), type_proto))

has_prototype_in_chain(h, self, type_proto) ==
  has_prototype_in_chain_from(h, proto(h, self), type_proto)

RECURSIVE is_subclass(_, _)
\* class c is class d or one of its subclasses
is_subclass(c, d) ==
  IF c = NoClass THEN FALSE
  ELSE c = d \/ is_subclass(ClassTable[c].super, d)

\* is_instance_of deciding by the class chain of the object
is_instance_of_by_class(h, a, self, class) ==
  Done(h, a, Ok(is_subclass(instance_of(h, self), as_class_object(h, class))))

is_instance_of(h, a, self, class) ==
  Let(get_property(h, a, class, class, MultinameOf(DynamicName("prototype"))),
      LAMBDA got :
    IF ~got.r.ok THEN got
    ELSE Let(CoerceToObject(got.r.v), LAMBDA type_proto :
           IF ~type_proto.ok THEN Done(got.h, got.a, type_proto)
           ELSE Done(got.h, got.a, has_prototype_in_chain(got.h, self, type_proto.v))))

RECURSIVE ProtoChain(_, _, _)
\* the first n objects of the prototype chain that starts with object o
ProtoChain(h, o, n) ==
  IF o = NoObj \/ n = 0 THEN << >>
  ELSE << o >> \o ProtoChain(h, proto(h, o), n - 1)

\* no prototype chain of the heap runs into a cycle: each ends in an
\* object without prototype
Acyclic(h) ==
  \A o \in DOMAIN h :
    Len(ProtoChain(h, o, Cardinality(DOMAIN h) + 1)) <= Cardinality(DOMAIN h)

(***************************************************************************)
(* A call in progress: the walks along the prototype chain, one turn of    *)
(* the loop or one call frame at a time.                                   *)
(***************************************************************************)
\* op: the operation; self: its receiver; frame: the object whose
\* get_property call is running; at: the object the loop or the innermost
\* resolve_multiname call is at; visited: the objects the current walk has
\* been at; frames: the objects whose get_property call delegated; r: the
\* result, once the call has returned
NoWalk ==
  [op |-> "none", self |-> NoObj, frame |-> NoObj, at |-> NoObj,
   target |-> Undefined, mn |-> [nsset |-> {}, local |-> "<no local name>"],
   visited |-> << >>, frames |-> << >>, done |-> FALSE, r |-> << >>,
   name |-> QName(NsPublic, NoLocal), id |-> 0, pc |-> "", held |-> "none", invoked |-> << >>]

\* the record of a walk, kept up to MaxWalk objects
Visit(seen, o) == IF Len(seen) < MaxWalk THEN Append(seen, o) ELSE seen

\* the calls that run user code for a local property or a method, followed
\* statement by statement with the borrow of the receiver's storage each
\* statement holds
BorrowOps ==
  {"get_property_local", "set_property_local", "init_property_local", "call_method"}

\* the binding of the name on the object runs user code when it is read
HasGetter(o, qn) ==
  qn \in DOMAIN o.values /\ o.values[qn].k = "virtual" /\ o.values[qn].get # NoFn

\* the binding of the name on the object runs user code when it is written
HasSetter(o, qn) ==
  qn \in DOMAIN o.values /\ o.values[qn].k = "virtual" /\ o.values[qn].set # NoFn

\* TObject::get_property_local: `base` is borrowed for the read of the
\* binding and dropped before the return value is resolved
get_property_local_turn(h, a, w) ==
  CASE w.pc = "base" ->
         [w |-> [w EXCEPT !.held = "shared", !.pc = "drop"], h |-> h, a |-> a]
    [] w.pc = "drop" ->
         [w |-> [w EXCEPT !.held = "none", !.pc = "resolve"], h |-> h, a |-> a]
    [] OTHER ->
         [w |-> [w EXCEPT !.done = TRUE,
                          !.invoked = IF HasGetter(h[w.self], w.name)
                                        THEN Append(w.invoked, w.held)
                                        ELSE w.invoked,
                          !.r = << TObject_get_property_local(h, w.self, w.self, w.name) >>],
          h |-> h, a |-> a]

\* TObject::set_property_local and init_property_local: `base_mut` is
\* borrowed for the write to the binding and dropped before the return
\* value is resolved
write_property_local_turn(h, a, w) ==
  LET write == IF w.op = "set_property_local"
                 THEN TObject_set_property_local(h, a, w.self, w.self, w.name, w.target)
                 ELSE TObject_init_property_local(h, a, w.self, w.self, w.name, w.target)
  IN  CASE w.pc = "base_mut" ->
             [w |-> [w EXCEPT !.held = "exclusive", !.pc = "drop"], h |-> write.h, a |-> write.a]
        [] w.pc = "drop" ->
             [w |-> [w EXCEPT !.held = "none", !.pc = "resolve"], h |-> h, a |-> a]
        [] OTHER ->
             [w |-> [w EXCEPT !.done = TRUE,
                              !.invoked = IF HasSetter(h[w.self], w.name)
                                            THEN Append(w.invoked, w.held)
                                            ELSE w.invoked,
                              !.r = << write.r >>],
              h |-> h, a |-> a]

\* TObject::call_method: the borrow of the test `self.base().get_method(id)
\* .is_none()` ends with the test; the borrow in the scrutinee of `if let
\* Some(method_object) = self.base().get_method(id)` lasts to the end of the
\* `if let`, over the call of the method object
call_method_turn(h, a, w) ==
  CASE w.pc = "test" ->
         [w |-> [w EXCEPT !.pc = IF BaseGetMethod(h[w.self], w.id).some
                                   THEN "lookup" ELSE "bind_instance"],
          h |-> h, a |-> a]
    [] w.pc = "bind_instance" ->
         Let(call_method_bind_instance(h, a, w.self, w.id), LAMBDA s1 :
           [w |-> IF s1.r.ok THEN [w EXCEPT !.pc = "bind_class"]
                  ELSE [w EXCEPT !.done = TRUE, !.r = << s1.r >>],
            h |-> s1.h, a |-> s1.a])
    [] w.pc = "bind_class" ->
         Let(call_method_bind_class(h, a, w.self, w.id), LAMBDA s2 :
           [w |-> IF s2.r.ok THEN [w EXCEPT !.pc = "lookup"]
                  ELSE [w EXCEPT !.done = TRUE, !.r = << s2.r >>],
            h |-> s2.h, a |-> s2.a])
    [] w.pc = "lookup" ->
         IF BaseGetMethod(h[w.self], w.id).some
           THEN [w |-> [w EXCEPT !.held = "shared", !.pc = "call"], h |-> h, a |-> a]
           ELSE [w |-> [w EXCEPT !.done = TRUE,
                                 !.r = << call_method_invoke(h, a, w.self, w.id).r >>],
                 h |-> h, a |-> a]
    [] OTHER ->
         [w |-> [w EXCEPT !.done = TRUE, !.held = "none",
                          !.invoked = Append(w.invoked, w.held),
                          !.r = << call_method_invoke(h, a, w.self, w.id).r >>],
          h |-> h, a |-> a]

\* the next statement of the call w
borrow_turn(h, a, w) ==
  IF w.op = "get_property_local" THEN get_property_local_turn(h, a, w)
  ELSE IF w.op = "call_method" THEN call_method_turn(h, a, w)
  ELSE write_property_local_turn(h, a, w)

\* one turn of the loop of has_prototype_in_chain, or one call frame of
\* resolve_multiname or get_property, or one statement of a call that runs
\* user code, for the walk w
walk_turn(h, a, w) ==
  IF w.op \in BorrowOps THEN borrow_turn(h, a, w)
  ELSE IF w.op = "has_prototype_in_chain"
    THEN Let(has_prototype_in_chain_frame(h, w.at, w.target), LAMBDA frame :
           IF frame.some
             THEN [w |-> [w EXCEPT !.done = TRUE, !.r = << frame.x >>,
                                   !.visited = IF w.at = NoObj THEN w.visited
                                               ELSE Visit(w.visited, w.at)],
                   h |-> h, a |-> a]
             ELSE [w |-> [w EXCEPT !.at = walk_on(h, w.at),
                                   !.visited = Visit(w.visited, w.at)],
                   h |-> h, a |-> a])
  ELSE Let(resolve_multiname_frame(h, w.at, w.mn), LAMBDA resolved :
         IF ~resolved.some
           THEN [w |-> [w EXCEPT !.at = walk_on(h, w.at),
                                 !.visited = Visit(w.visited, w.at)],
                 h |-> h, a |-> a]
         ELSE IF w.op = "resolve_multiname"
           THEN [w |-> [w EXCEPT !.done = TRUE, !.r = << resolved.x >>,
                                 !.visited = Visit(w.visited, w.at)],
                 h |-> h, a |-> a]
         ELSE Let(get_property_frame(h, a, w.frame, w.self, w.mn, resolved.x),
                  LAMBDA frame :
                IF frame.some
                  THEN [w |-> [w EXCEPT !.done = TRUE, !.r = << frame.x.r >>,
                                        !.visited = Visit(w.visited, w.at)],
                        h |-> frame.x.h, a |-> frame.x.a]
                  ELSE [w |-> [w EXCEPT !.frame = walk_on(h, w.frame),
                                        !.at = walk_on(h, w.frame),
                                        !.visited = << >>,
                                        !.frames = Visit(w.frames, w.frame)],
                        h |-> h, a |-> a]))

\* a walk that gives up when it comes to an object a second time
walk_step_guarded(h, a, w) ==
  IF w.at # NoObj /\ \E i \in DOMAIN w.visited : w.visited[i] = w.at
    THEN [w |-> [w EXCEPT !.done = TRUE, !.r = << Ok(FALSE) >>], h |-> h, a |-> a]
    ELSE walk_turn(h, a, w)

\* the next turn of the walk w: the walk, heap and allocation counter it
\* leaves; nothing but the chain itself ends the walk
walk_step(h, a, w) ==
  walk_turn(h, a, w)

(***************************************************************************)
(* Enumeration                                                             *)
(***************************************************************************)
TObject_get_next_enumerant(h, self, last_index) ==
  Ok(BaseGetNextEnumerant(h[self], last_index))

\* the vector cursor with an inclusive bound
VectorObject_get_next_enumerant_inclusive(h, self, last_index) ==
  IF last_index <= VectorLength(h[self])
    THEN Ok(Some(last_index + 1))
    ELSE Ok(None)

VectorObject_get_next_enumerant(h, self, last_index) ==
  IF last_index < VectorLength(h[self])
    THEN Ok(Some(last_index + 1))
    ELSE Ok(None)

get_next_enumerant(h, self, last_index) ==
  IF as_vector_storage(h, self)
    THEN VectorObject_get_next_enumerant(h, self, last_index)
    ELSE TObject_get_next_enumerant(h, self, last_index)

TObject_property_is_enumerable(h, self, name) ==
  BasePropertyIsEnumerable(h[self], name)

\* the local name is parsed and compared to the length, whatever the
\* namespace of the name
VectorObject_property_is_enumerable(h, self, name) ==
  Let(ParseUsize(name.local), LAMBDA index :
    IF index.some THEN VectorLength(h[self]) >= index.x ELSE FALSE)

property_is_enumerable(h, self, name) ==
  IF as_vector_storage(h, self)
    THEN VectorObject_property_is_enumerable(h, self, name)
    ELSE TObject_property_is_enumerable(h, self, name)

TObject_get_enumerant_name(h, self, index) ==
  Let(BaseGetEnumerantName(h[self], index), LAMBDA name :
    Ok(IF name.some THEN name.x ELSE Undefined))

\* the vector's enumerant names counted from one
VectorObject_get_enumerant_name_from_one(h, self, index) ==
  IF VectorLength(h[self]) >= index
    THEN Ok(IF index >= 1 THEN Num(index) ELSE Undefined)
    ELSE Ok(Str(""))

VectorObject_get_enumerant_name(h, self, index) ==
  IF VectorLength(h[self]) >= index
    THEN Ok(IF index >= 1 THEN Num(index - 1) ELSE Undefined)
    ELSE Ok(Str(""))

get_enumerant_name(h, self, index) ==
  IF as_vector_storage(h, self)
    THEN VectorObject_get_enumerant_name(h, self, index)
    ELSE TObject_get_enumerant_name(h, self, index)

\* Value::coerce_to_string of the values an enumerant name can be
CoerceToString(v) ==
  CASE v.t = "str" -> Ok(v.s)
    [] v.t = "int" -> Ok(DecimalString(v.n))
    [] v.t = "undef" -> Ok("undefined")
    [] v.t = "null" -> Ok("null")
    [] OTHER -> Err("Cannot coerce to string")

\* get_enumerant_value reading the property named by the index itself
get_enumerant_value_of_index(h, a, self, index) ==
  get_property(h, a, self, self, MultinameOf(DynamicName(DecimalString(index))))

get_enumerant_value(h, a, self, index) ==
  Let(get_enumerant_name(h, self, index), LAMBDA got :
    IF ~got.ok THEN Done(h, a, got)
    ELSE Let(CoerceToString(got.v), LAMBDA name :
           IF ~name.ok THEN Done(h, a, name)
           ELSE get_property(h, a, self, self, MultinameOf(DynamicName(name.v)))))

(***************************************************************************)
(* Trait installation                                                      *)
(***************************************************************************)
get_slot(h, self, id) == BaseGetSlot(h[self], id)

\* install_trait reserving no slot for a class or a function trait
install_trait_unreserved(h, a, self, trait_entry, defining_class) ==
  CASE trait_entry.kind = "Slot" ->
         Done([h EXCEPT ![self] = BaseInstallSlot(h[self], trait_entry.name,
                                                  trait_entry.id, trait_entry.dflt)],
              a, Ok(trait_entry.dflt))
    [] trait_entry.kind = "Const" ->
         Done([h EXCEPT ![self] = BaseInstallConst(h[self], trait_entry.name,
                                                   trait_entry.id, trait_entry.dflt)],
              a, Ok(trait_entry.dflt))
    [] OTHER -> Done(h, a, Ok(Undefined))

\* install_trait binding a method at installation
install_trait_eager(h, a, self, trait_entry, defining_class) ==
  IF trait_entry.kind = "Method"
    THEN Done(install_method(h, self, trait_entry.name, trait_entry.id,
                             Fn(a + 1, self, trait_entry.m)),
              a + 1, Ok(Undefined))
  ELSE install_trait_unreserved(h, a, self, trait_entry, defining_class)

install_trait(h, a, self, trait_entry, defining_class) ==
  LET name == trait_entry.name
      function == Fn(a + 1, self, trait_entry.m)
  IN  CASE trait_entry.kind = "Slot" ->
             Done([h EXCEPT ![self] = BaseInstallSlot(h[self], name, trait_entry.id,
                                                      trait_entry.dflt)],
                  a, Ok(trait_entry.dflt))
        [] trait_entry.kind = "Method" -> Done(h, a, Ok(Undefined))
        [] trait_entry.kind = "Getter" ->
             Let(BaseInstallGetter(h[self], name, trait_entry.id, function),
                 LAMBDA installed :
               IF ~installed.r.ok THEN Done(h, a + 1, installed.r)
               ELSE Done([h EXCEPT ![self] = installed.o], a + 1, Ok(function)))
        [] trait_entry.kind = "Setter" ->
             Let(BaseInstallSetter(h[self], name, trait_entry.id, function),
                 LAMBDA installed :
               IF ~installed.r.ok THEN Done(h, a + 1, installed.r)
               ELSE Done([h EXCEPT ![self] = installed.o], a + 1, Ok(function)))
        [] trait_entry.kind \in {"Class", "Function"} ->
             Done([h EXCEPT ![self] = BaseInstallConst(h[self], name, trait_entry.id,
                                                       Undefined)],
                  a, Ok(Undefined))
        [] OTHER -> \* Const
             Done([h EXCEPT ![self] = BaseInstallConst(h[self], name, trait_entry.id,
                                                       trait_entry.dflt)],
                  a, Ok(trait_entry.dflt))

RECURSIVE install_traits_from(_, _, _, _, _, _)
\* the loop of install_traits, from the i-th trait on
install_traits_from(h, a, self, traits, defining_class, i) ==
  IF i > Len(traits) THEN Done(h, a, Ok(Undefined))
  ELSE Let(install_trait(h, a, self, traits[i], defining_class), LAMBDA one :
         IF ~one.r.ok THEN one
         ELSE install_traits_from(one.h, one.a, self, traits, defining_class, i + 1))

install_traits(h, a, self, traits, defining_class) ==
  install_traits_from(h, a, self, traits, defining_class, 1)

RECURSIVE install_instance_traits_leaf_first(_, _, _, _)
\* install_instance_traits installing the class's own traits before those
\* of its superclass
install_instance_traits_leaf_first(h, a, self, from_class_object) ==
  Let(install_traits(h, a, self, ClassTable[from_class_object].itraits,
                     from_class_object), LAMBDA own :
    IF ~own.r.ok THEN own
    ELSE IF SuperclassObject(from_class_object) # NoClass
      THEN install_instance_traits_leaf_first(own.h, own.a, self,
                                              SuperclassObject(from_class_object))
    ELSE own)

RECURSIVE install_instance_traits(_, _, _, _)
install_instance_traits(h, a, self, from_class_object) ==
  Let(IF SuperclassObject(from_class_object) # NoClass
        THEN install_instance_traits(h, a, self, SuperclassObject(from_class_object))
        ELSE Done(h, a, Ok(Undefined)), LAMBDA super :
    IF ~super.r.ok THEN super
    ELSE install_traits(super.h, super.a, self,
                        ClassTable[from_class_object].itraits, from_class_object))

(***************************************************************************)
(* Construction: the heaps the operations start from.                      *)
(***************************************************************************)
\* an instance of `class` (or a classless object) with prototype `p`:
\* allocated, then its instance traits installed
new_instance(h, a, self, p, class) ==
  Let((self :> BaseNew(p, class)) @@ h, LAMBDA bare :
    IF class = NoClass THEN Done(bare, a, Ok(Undefined))
    ELSE install_instance_traits(bare, a, self, class))

\* the class object of `class`: allocated, then its class traits installed
new_class_object(h, a, self, p, class, meta) ==
  Let((self :> [BaseNew(p, meta) EXCEPT !.kind = "class", !.as_class = class]) @@ h,
      LAMBDA bare : install_traits(bare, a, self, ClassTable[class].ctraits, class))

\* VectorStorage::new(length, is_fixed, value_type): filled with defaults
new_vector(h, a, self, p, class, vtype, fixed, length) ==
  Let([BaseNew(p, class) EXCEPT !.kind = "vector", !.vtype = vtype, !.fixed = fixed],
      LAMBDA base :
    Let((self :> [base EXCEPT !.vector = [i \in 1..length |-> VectorDefault(base)]]) @@ h,
        LAMBDA bare :
      IF class = NoClass THEN Done(bare, a, Ok(Undefined))
      ELSE install_instance_traits(bare, a, self, class)))

\* a prototype object holding one dynamic property, or none
new_prototype(h, self, p, names, v) ==
  (self :> [BaseNew(p, NoClass) EXCEPT
              !.values = [q \in names |-> DynBinding(v)],
              !.enumerants = IF names = {} THEN << >>
                             ELSE << CHOOSE q \in names : TRUE >>]) @@ h

EmptyHeap == [x \in {} |-> BaseNew(NoObj, NoClass)]

\* the object world: object 1 is an instance of A or of S, a classless
\* object or the class object of A; 2 is its prototype, 3 the root prototype
ObjectHeaps ==
  { Let(new_prototype(new_prototype(EmptyHeap, 3, NoObj, rootnames, Num(0)),
                      2, 3, protonames, Num(0)), LAMBDA h2 :
      Let(IF c2 = NoClass THEN Done(h2, 0, Ok(Undefined))
          ELSE new_instance(h2, 0, 2, 3, c2), LAMBDA o2 :
        IF c1 = "class"
          THEN new_class_object(o2.h, o2.a, 1, 2, "A", "Meta")
          ELSE new_instance(o2.h, o2.a, 1, 2, c1))) :
    c1 \in {"A", "S", NoClass, "class"}, c2 \in {"A", "S", NoClass},
    protonames \in {{}, {QName(NsPublic, "x")}},
    rootnames \in {{}, {QName(NsPublic, "x")}, {QName(NsPrivate, "x")}} }
  \cup
  \* an instance of S whose root prototype is an instance of S that has no
  \* prototype; the prototype in between may hold the name of S's setter
  { Let(new_instance(EmptyHeap, 0, 3, NoObj, "S"), LAMBDA o3 :
      new_instance(new_prototype(o3.h, 2, 3, protonames, Num(0)), o3.a, 1, 2, "S")) :
    protonames \in {{}, {QName(NsPrivate, "m")}} }

VectorTypes == {"int", "Object"}

\* the vector world: object 1 is a vector object, 2 its prototype, which
\* may hold a dynamic property under an index name
\* the prototype of a vector class: built by the allocator without a class
\* of its own (an empty vector of Object that is not fixed), then grown to
\* `length` elements by writes of v at its end
new_vector_prototype(h, self, length, v) ==
  Let(new_vector(h, 0, self, NoObj, NoClass, "Object", FALSE, 0).h, LAMBDA bare :
    [bare EXCEPT ![self].vector = [i \in 1..length |-> v]])

\* object 1 is a vector of 0..MaxLen elements, object 2 its prototype:
\* empty, or one element longer than any vector
VectorHeaps ==
  { new_vector(new_vector_prototype(EmptyHeap, 2, protolen, Str("1")),
               0, 1, 2, c, t, f, n) :
    c \in {"VD", "VS"}, t \in VectorTypes, f \in BOOLEAN, n \in 0..MaxLen,
    protolen \in {0, MaxLen + 1} }

(***************************************************************************)
(* The state machine: one action per operation of the capability           *)
(* interface, applied by the interpreter with the object as receiver.      *)
(***************************************************************************)
NoMultiname == Multiname({}, NoLocal)
NoName == QName(NsPublic, NoLocal)

\* the record of the operation a step performed: its arguments, its
\* result, and the heap and allocation counter it started from
Performed(op, self, mn, name, value, id, r) ==
  [op |-> op, self |-> self, mn |-> mn, name |-> name, value |-> value,
   id |-> id, r |-> r, pre |-> heap, prea |-> alloc]

\* an enumeration in progress: the indices get_next_enumerant returned
Idle == [self |-> NoObj, seen |-> << >>, done |-> FALSE]

\* the objects the interpreter operates on
Receivers == {1}

\* the decimal names of the indices 0..MaxLen, and one with a leading zero
IndexLocals == { DecimalString(i) : i \in 0..MaxLen } \cup {"01"}

Multinames ==
  IF world = "vector"
    THEN { Multiname({NsPublic}, l) : l \in IndexLocals }
           \cup { Multiname({NsAny}, "1"), Multiname({NsPrivate}, "0"),
                  Multiname({NsPublic}, "x") }
  ELSE IF world = "chain"
    THEN { Multiname({NsPublic}, "x"), Multiname({NsPrivate}, "x"),
           Multiname({NsAny}, "x") }
    ELSE { Multiname({NsPublic}, "x"), Multiname({NsPrivate}, "x"),
           Multiname({NsPublic, NsPrivate}, "x"), Multiname({NsAny}, "x"),
           Multiname({NsPublic}, "m"), Multiname({NsPrivate}, "m"),
           Multiname({NsPublic}, NoLocal), Multiname({NsAny}, NoLocal) }

QNames == { QName(ns, mn.local) : ns \in {NsPublic, NsPrivate},
                                  mn \in { m \in Multinames : m.local # NoLocal } }

\* the values the interpreter writes
WrittenValues ==
  IF world = "vector" THEN {Str("1"), Undefined, Null}
  ELSE {Num(1)}

DispIds == {1, 2, 4}

InitObject ==
  /\ world = "object"
  /\ \E d \in ObjectHeaps : heap = d.h /\ alloc = d.a
  /\ last = Performed("none", NoObj, NoMultiname, NoName, Undefined, 0, Ok(Undefined))
  /\ cursor = Idle
  /\ walk = NoWalk

\* the world of failing lookups: object 1 is an instance of B, whose method
\* tables cannot be read; 2 is its prototype, 3 the root prototype
InitFaulty ==
  /\ world = "faulty"
  /\ \E protonames \in {{}, {QName(NsPublic, "x")}, {QName(NsPublic, "m")}},
        rootnames \in {{}, {QName(NsPublic, "x")}, {QName(NsPrivate, "x")}} :
       \E d \in { new_instance(
                     new_prototype(new_prototype(EmptyHeap, 3, NoObj, rootnames, Num(0)),
                                   2, 3, protonames, Num(0)),
                     0, 1, 2, "B") } :
         heap = d.h /\ alloc = d.a
  /\ last = Performed("none", NoObj, NoMultiname, NoName, Undefined, 0, Ok(Undefined))
  /\ cursor = Idle
  /\ walk = NoWalk

\* the world of generic classes: object 1 is the class object of the
\* generic class G, 2 is its prototype
InitGeneric ==
  /\ world = "generic"
  /\ \E protonames \in {{}, {QName(NsPublic, "x")}} :
       \E d \in { new_class_object(
                     new_prototype(EmptyHeap, 2, NoObj, protonames, Num(0)),
                     0, 1, 2, "G", "Meta") } :
         heap = d.h /\ alloc = d.a
  /\ last = Performed("none", NoObj, NoMultiname, NoName, Undefined, 0, Ok(Undefined))
  /\ cursor = Idle
  /\ walk = NoWalk

InitVector ==
  /\ world = "vector"
  /\ \E d \in VectorHeaps : heap = d.h /\ alloc = d.a
  /\ last = Performed("none", NoObj, NoMultiname, NoName, Undefined, 0, Ok(Undefined))
  /\ cursor = Idle
  /\ walk = NoWalk

\* the chain world: object 1 is an instance of S or a classless object, 2
\* its prototype, 3 the root prototype, 4 the class object of A, whose
\* prototype property may refer to object 2
InitChain ==
  /\ world = "chain"
  /\ \E c1 \in {"S", NoClass}, type_proto \in {Undefined, ObjRef(2)},
        protonames \in {{}, {QName(NsPublic, "x")}},
        rootnames \in {{}, {QName(NsPublic, "x")}} :
       \E d \in { Let(new_instance(
                         new_prototype(new_prototype(EmptyHeap, 3, NoObj, rootnames, Num(0)),
                                       2, 3, protonames, Num(0)),
                         0, 1, 2, c1), LAMBDA o1 :
                   new_class_object(o1.h, o1.a, 4, 3, "A", "Meta")) } :
         /\ heap = IF type_proto = Undefined THEN d.h
                   ELSE [d.h EXCEPT ![4] = BaseInitPropertyLocal(
                                             d.h[4], DynamicName("prototype"), type_proto).o]
         /\ alloc = d.a
  /\ last = Performed("none", NoObj, NoMultiname, NoName, Undefined, 0, Ok(Undefined))
  /\ cursor = Idle
  /\ walk = NoWalk

\* no operation is in progress
Quiet == last.op = "none" /\ walk.op = "none"

\* the interpreter is ready to issue an operation that runs to its end:
\* in the chain world, where set_proto may have closed a cycle, one is
\* issued only while every prototype chain ends
Ready == Quiet /\ (world = "chain" => Acyclic(heap))

\* a step that performs an operation with outcome d
Step(d, op, self, mn, name, value, id) ==
  /\ heap' = d.h
  /\ alloc' = d.a
  /\ last' = Performed(op, self, mn, name, value, id, d.r)
  /\ cursor' = Idle
  /\ UNCHANGED <<world, walk>>

GetProperty ==
  /\ Ready
  /\ \E self \in Receivers, mn \in Multinames :
       \E d \in {get_property(heap, alloc, self, self, mn)} :
         Step(d, "get_property", self, mn, NoName, Undefined, 0)

SetProperty ==
  /\ Ready
  /\ \E self \in Receivers, mn \in Multinames, value \in WrittenValues :
       \E d \in {set_property(heap, alloc, self, self, mn, value)} :
         Step(d, "set_property", self, mn, NoName, value, 0)

InitProperty ==
  /\ Ready
  /\ \E self \in Receivers, mn \in Multinames, value \in WrittenValues :
       \E d \in {init_property(heap, alloc, self, self, mn, value)} :
         Step(d, "init_property", self, mn, NoName, value, 0)

DeleteProperty ==
  /\ Ready
  /\ \E self \in Receivers, mn \in Multinames :
       \E d \in {delete_property(heap, alloc, self, mn)} :
         Step(d, "delete_property", self, mn, NoName, Undefined, 0)

HasProperty ==
  /\ Ready
  /\ \E self \in Receivers, name \in QNames :
       \E d \in {Done(heap, alloc, has_property(heap, self, name))} :
         Step(d, "has_property", self, NoMultiname, name, Undefined, 0)

CallMethod ==
  /\ Ready
  /\ \E self \in Receivers, id \in DispIds :
       \E d \in {call_method(heap, alloc, self, id)} :
         Step(d, "call_method", self, NoMultiname, NoName, Undefined, id)

CallProperty ==
  /\ Ready
  /\ \E self \in Receivers, mn \in Multinames :
       \E d \in {call_property(heap, alloc, self, mn)} :
         Step(d, "call_property", self, mn, NoName, Undefined, 0)

\* the application of a type to an element-type parameter, as from_vector
\* applies the vector class to the value type of the storage it wraps
Apply ==
  /\ Ready
  /\ \E self \in Receivers, param \in VectorTypes :
       \E d \in {apply(heap, alloc, self, param)} :
         Step(d, "apply", self, NoMultiname, NoName, Str(param), 0)

\* the caller's enumeration loop: start at 0, then hand each returned index
\* back until None
NextEnumerant ==
  \E self \in Receivers :
    /\ Ready
    /\ cursor.self \in {NoObj, self}
    /\ ~cursor.done
    /\ \E last_index \in {IF cursor.seen = << >> THEN 0
                         ELSE cursor.seen[Len(cursor.seen)]} :
         \E r \in {get_next_enumerant(heap, self, last_index)} :
           /\ cursor' = IF r.v.some
                          THEN [self |-> self, seen |-> Append(cursor.seen, r.v.x),
                                done |-> FALSE]
                          ELSE [self |-> self, seen |-> cursor.seen, done |-> TRUE]
           /\ last' = Performed("get_next_enumerant", self, NoMultiname, NoName,
                                Undefined, last_index, r)
    /\ UNCHANGED <<heap, alloc, world, walk>>

\* the indices handed to get_enumerant_value: those of the longest vector,
\* the start index 0 and one past the end
EnumerantIndices == 0..(MaxLen + 2)

GetEnumerantValue ==
  /\ Ready
  /\ \E self \in Receivers, index \in EnumerantIndices :
       \E d \in {get_enumerant_value(heap, alloc, self, index)} :
         Step(d, "get_enumerant_value", self, NoMultiname, NoName, Undefined, index)

\* property_is_enumerable answers with a plain boolean, recorded as Ok
PropertyIsEnumerable ==
  /\ Ready
  /\ \E self \in Receivers, name \in QNames :
       \E d \in {Done(heap, alloc, Ok(property_is_enumerable(heap, self, name)))} :
         Step(d, "property_is_enumerable", self, NoMultiname, name, Undefined, 0)

\* the interpreter takes the result of the operation
Return ==
  /\ last.op # "none" \/ walk.done
  /\ last' = Performed("none", NoObj, NoMultiname, NoName, Undefined, 0, Ok(Undefined))
  /\ walk' = NoWalk
  /\ UNCHANGED <<heap, alloc, cursor, world>>

\* the objects whose prototype is set, and the prototypes they are given:
\* in the chain world any of the three objects of the chain, elsewhere the
\* prototype the object has
ProtoChoices(self) ==
  IF world = "chain" THEN IF self \in {1, 3} THEN {1, 2, 3} ELSE {}
  ELSE IF self = 1 THEN {proto(heap, 1)} ELSE {}

SetProto ==
  /\ Quiet
  /\ \E self \in DOMAIN heap :
       \E p \in ProtoChoices(self) :
         Step(Done(set_proto(heap, self, p), alloc, Ok(Undefined)),
              "set_proto", self, NoMultiname, NoName, ObjRef(p), 0)

\* the object the allocator makes next
Fresh == 5

\* the classes instances are made of
Constructed == IF world = "chain" THEN {"A", "S", "F", "T"} ELSE {"F"}

\* the allocator: a bare instance of the class with object 2 as its
\* prototype, then install_instance_traits on it; one instance is made
NewInstance ==
  /\ Ready
  /\ Fresh \notin DOMAIN heap
  /\ \E class \in Constructed :
       \E d \in {new_instance(heap, alloc, Fresh, 2, class)} :
         Step(d, "new_instance", Fresh, NoMultiname, NoName, Str(class), 0)

\* the class objects an object is tested against
TypeObjects == IF world = "chain" THEN {4} ELSE {2}

IsInstanceOf ==
  /\ Ready
  /\ \E self \in Receivers, class \in TypeObjects :
       \E d \in {is_instance_of(heap, alloc, self, class)} :
         Step(d, "is_instance_of", self, NoMultiname, NoName, ObjRef(class), 0)

\* the walks a call starts: has_prototype_in_chain with my_proto set to
\* the receiver's prototype, resolve_multiname and get_property at the
\* receiver
\* the local names read and, where the object has a binding of the name,
\* written statement by statement: a plain one, that of the setter of S and
\* that of the getter of S
LocalNames ==
  {QName(NsPublic, "x"), QName(NsPrivate, "m"), QName(NsPrivate, "g")}

Walks(self) ==
  { [NoWalk EXCEPT !.op = "has_prototype_in_chain", !.self = self,
                   !.at = proto(heap, self), !.target = ObjRef(t)] :
    t \in IF world = "chain" THEN {1, 2, 3} ELSE {2} }
  \cup
  { [NoWalk EXCEPT !.op = op, !.self = self, !.frame = self, !.at = self, !.mn = mn] :
    op \in {"resolve_multiname", "get_property"},
    mn \in IF world = "chain" THEN Multinames ELSE {} }
  \cup
  { [NoWalk EXCEPT !.op = "get_property_local", !.self = self, !.name = name,
                   !.pc = "base"] :
    name \in IF world = "object" THEN LocalNames ELSE {} }
  \cup
  { [NoWalk EXCEPT !.op = op, !.self = self, !.name = name, !.target = Num(1),
                   !.pc = "base_mut"] :
    op \in {"set_property_local", "init_property_local"},
    name \in IF world = "object" THEN LocalNames \cap DOMAIN heap[self].values ELSE {} }
  \cup
  { [NoWalk EXCEPT !.op = "call_method", !.self = self, !.id = id, !.pc = "test"] :
    id \in IF world = "object" THEN DispIds ELSE {} }

\* a call that walks the prototype chain is entered
Enter ==
  /\ Quiet
  /\ \E self \in Receivers :
       \E w \in Walks(self) :
         /\ walk' = w
         /\ cursor' = Idle
  /\ UNCHANGED <<heap, alloc, last, world>>

\* the call in progress takes its next turn
Advance ==
  /\ walk.op # "none"
  /\ ~walk.done
  /\ \E n \in {walk_step(heap, alloc, walk)} :
       /\ walk' = n.w
       /\ heap' = n.h
       /\ alloc' = n.a
  /\ UNCHANGED <<last, cursor, world>>

Next ==
  \/ GetProperty
  \/ SetProperty
  \/ InitProperty
  \/ DeleteProperty
  \/ HasProperty
  \/ CallMethod
  \/ CallProperty
  \/ Apply
  \/ NextEnumerant
  \/ GetEnumerantValue
  \/ PropertyIsEnumerable
  \/ SetProto
  \/ IsInstanceOf
  \/ NewInstance
  \/ Enter
  \/ Advance
  \/ Return

Spec == InitObject /\ [][Next]_vars

SpecVector == InitVector /\ [][Next]_vars

\* the world of failing lookups
SpecFaulty == InitFaulty /\ [][Next]_vars

\* the objects types are applied to: those of the object world and the
\* generic class
SpecApply == (InitObject \/ InitGeneric) /\ [][Next]_vars

\* both worlds
SpecBoth == (InitObject \/ InitVector) /\ [][Next]_vars

\* the world of prototype chains that set_proto rearranges
SpecChain == InitChain /\ [][Next]_vars

(***************************************************************************)
(* Properties.  Each is stated of the operation the last step performed:   *)
(* `last` holds its arguments and result, last.pre and last.prea the heap  *)
(* and allocation counter it started from, heap and alloc what it left.    *)
(***************************************************************************)
\* the multiname is a single public name
IsPublicName(mn) == mn.nsset = {NsPublic} /\ mn.local # NoLocal

\* the multiname resolves nowhere on the object or its prototype chain
ResolvesNowhere(h, self, mn) == resolve_multiname(h, self, mn) = Ok(None)

\* ---- C1 ----------------------------------------------------------------
\* a set_property of a multiname with a local name that resolves nowhere,
\* on an object whose class is not sealed, the name not being a method
C1_Case ==
  /\ last.op = "set_property"
  /\ ~instance_is_sealed(last.pre, last.self)
  /\ last.mn.local # NoLocal
  /\ ResolvesNowhere(last.pre, last.self, last.mn)
  /\ is_method_name(last.pre, last.self, DynamicName(last.mn.local)) = Ok(FALSE)

\* the write succeeded, a read of the same multiname returns the written
\* value, and the binding is a dynamic one under the public namespace
C1_RoundTrip ==
  /\ last.r = Ok(Undefined)
  /\ get_property(heap, alloc, last.self, last.self, last.mn).r = Ok(last.value)
  /\ DynamicName(last.mn.local) \in DOMAIN heap[last.self].values
  /\ heap[last.self].values[DynamicName(last.mn.local)] = DynBinding(last.value)

\* C1 as claimed: on a dynamic or classless object, set_property of a name
\* that resolves nowhere and is no method, followed by get_property of the
\* same name, returns the written value, and the binding is stored under
\* the public namespace.
C1_DynamicRoundTripAsClaimed == C1_Case => C1_RoundTrip

\* the name is an index name that a vector object intercepts
C1_VectorIndex ==
  as_vector_storage(last.pre, last.self) /\ ParseUsize(last.mn.local).some

\* C1 as amended: unless the name is an index of a vector object, the
\* binding is stored under the public namespace whatever the namespace
\* set, and the round trip holds when the multiname's namespace set
\* contains the public namespace or the any-namespace.
C1_DynamicRoundTrip ==
  (C1_Case /\ ~C1_VectorIndex) =>
    /\ last.r = Ok(Undefined)
    /\ DynamicName(last.mn.local) \in DOMAIN heap[last.self].values
    /\ heap[last.self].values[DynamicName(last.mn.local)] = DynBinding(last.value)
    /\ (NsPublic \in last.mn.nsset \/ NsAny \in last.mn.nsset) => C1_RoundTrip

C1_Witness ==
  /\ C1_Case
  /\ NsPublic \in last.mn.nsset
  /\ instance_of(heap, last.self) = "A"
  /\ C1_RoundTrip

\* ---- C2 ----------------------------------------------------------------
C2_Case ==
  /\ last.op \in {"get_property", "set_property", "init_property"}
  /\ instance_is_sealed(last.pre, last.self)
  /\ ResolvesNowhere(last.pre, last.self, last.mn)

\* C2: on a sealed-class instance, get_property of a multiname that
\* resolves nowhere fails with the undefined-read error, set_property and
\* init_property of it fail with the undefined-write error, and the object
\* (the whole heap) is left as it was.
C2_SealedRejection ==
  C2_Case =>
    /\ ~last.r.ok
    /\ last.r.err = IF last.op = "get_property"
                      THEN "Cannot get undefined property"
                      ELSE "Cannot set undefined property"
    /\ heap = last.pre
    /\ alloc = last.prea

C2_Witness ==
  /\ C2_Case
  /\ last.op = "init_property"
  /\ last.mn.local # NoLocal
  /\ last.r = Err("Cannot set undefined property")

\* ---- C3 ----------------------------------------------------------------
\* the class of the object declares an instance method of that name, or
\* the object is a class object whose class declares a class method of it
DeclaresMethod(h, self, name) ==
  \/ /\ instance_of(h, self) # NoClass
     /\ InstanceMethodWhere(instance_of(h, self), ByName(name)).some
  \/ /\ as_class_object(h, self) # NoClass
     /\ \E i \in DOMAIN ClassTable[as_class_object(h, self)].ctraits :
          /\ ClassTable[as_class_object(h, self)].ctraits[i].kind = "Method"
          /\ ClassTable[as_class_object(h, self)].ctraits[i].name = name

\* the qualified name a multiname of one namespace names
NameOf(mn) == QName(CHOOSE ns \in mn.nsset : TRUE, mn.local)

\* a write, by set_property or init_property, to the name of a declared
\* method
C3_Case ==
  /\ last.op \in {"set_property", "init_property"}
  /\ Cardinality(last.mn.nsset) = 1
  /\ last.mn.local # NoLocal
  /\ DeclaresMethod(last.pre, last.self, NameOf(last.mn))

\* C3: set_property and init_property on the name of a declared instance
\* method (or of a class method, on the class object) fail with the
\* read-only error and change nothing, whether or not a read has bound the
\* method already.
C3_MethodReadOnly ==
  C3_Case =>
    /\ last.r = Err("Cannot overwrite read-only property")
    /\ heap = last.pre
    /\ alloc = last.prea

\* the write came after the method was bound
C3_Witness ==
  /\ C3_Case
  /\ last.op = "init_property"
  /\ BaseHasOwnInstantiatedProperty(last.pre[last.self], NameOf(last.mn))
  /\ last.pre[last.self].values[NameOf(last.mn)].k = "method"
  /\ last.r = Err("Cannot overwrite read-only property")

\* ---- C4 ----------------------------------------------------------------
\* a get_property of the name of an instance method the class declares
C4_Case ==
  /\ last.op = "get_property"
  /\ Cardinality(last.mn.nsset) = 1
  /\ last.mn.local # NoLocal
  /\ instance_of(last.pre, last.self) # NoClass
  /\ InstanceMethodWhere(instance_of(last.pre, last.self),
                         ByName(NameOf(last.mn))).some

\* C4: a read of a declared instance method returns a bound callable that
\* is installed on the object, binding it if no earlier read did; the next
\* read returns the same callable and binds nothing.
C4_LazyBindIdempotent ==
  C4_Case =>
    /\ last.r.ok
    /\ last.r.v.t = "fn"
    /\ NameOf(last.mn) \in DOMAIN heap[last.self].values
    /\ heap[last.self].values[NameOf(last.mn)].v = last.r.v
    /\ alloc = IF BaseHasOwnInstantiatedProperty(last.pre[last.self], NameOf(last.mn))
                 THEN last.prea ELSE last.prea + 1
    /\ get_property(heap, alloc, last.self, last.self, last.mn)
         = Done(heap, alloc, last.r)

\* the first read of the method: it was not bound before
C4_Witness ==
  /\ C4_Case
  /\ ~BaseHasOwnInstantiatedProperty(last.pre[last.self], NameOf(last.mn))
  /\ last.r.ok
  /\ last.r.v.t = "fn"
  /\ alloc = last.prea + 1

\* ---- C5 ----------------------------------------------------------------
\* has_property of a name the object has no own binding of, and that its
\* immediate prototype owns as a binding that can be read
C5_Case ==
  /\ last.op = "has_property"
  /\ ~has_own_property(last.pre, last.self, last.name).v
  /\ proto(last.pre, last.self) # NoObj
  /\ has_own_property(last.pre, proto(last.pre, last.self), last.name).v
  /\ \/ last.name \notin DOMAIN last.pre[proto(last.pre, last.self)].values
     \/ last.pre[proto(last.pre, last.self)].values[last.name].k # "virtual"

\* what get_property of the name does in the state has_property ran in
C5_Get == get_property(last.pre, last.prea, last.self, last.self, MultinameOf(last.name))

EnumerantCount(h, self) ==
  IF as_vector_storage(h, self) THEN VectorLength(h[self]) ELSE Len(h[self].enumerants)

\* C6: the indices get_next_enumerant returns, started at 0 and each fed
\* back, on an object that is not changed meanwhile: none is 0, none
\* occurs twice, they are never more than the object has enumerants, once
\* they are as many the next call returns None, and None comes only then.
C6_EnumerationTerminates ==
  cursor.self # NoObj =>
    /\ \A i \in DOMAIN cursor.seen : cursor.seen[i] # 0
    /\ \A i, j \in DOMAIN cursor.seen : i # j => cursor.seen[i] # cursor.seen[j]
    /\ Len(cursor.seen) <= EnumerantCount(heap, cursor.self)
    /\ cursor.done => Len(cursor.seen) = EnumerantCount(heap, cursor.self)
    /\ (Len(cursor.seen) = EnumerantCount(heap, cursor.self) /\ cursor.seen # << >>)
         => get_next_enumerant(heap, cursor.self, cursor.seen[Len(cursor.seen)]) = Ok(None)

C6_Witness ==
  /\ cursor.self # NoObj
  /\ as_vector_storage(heap, cursor.self)
  /\ cursor.done
  /\ Len(cursor.seen) = MaxLen

\* ---- C7 ----------------------------------------------------------------
\* a get_property, on a vector, of a public index name at or past its end
C7_Case ==
  /\ last.op = "get_property"
  /\ as_vector_storage(last.pre, last.self)
  /\ IsPublicName(last.mn)
  /\ ParseUsize(last.mn.local).some
  /\ ParseUsize(last.mn.local).x >= VectorLength(last.pre[last.self])

RECURSIVE ChainOwns(_, _, _)
\* object o or one of its prototypes owns the name
ChainOwns(h, o, name) ==
  /\ o # NoObj
  /\ \/ has_own_property(h, o, name).v
     \/ ChainOwns(h, proto(h, o), name)

C8_Case ==
  /\ last.op = "set_property"
  /\ as_vector_storage(last.pre, last.self)
  /\ IsPublicName(last.mn)
  /\ ParseUsize(last.mn.local).some
  /\ ParseUsize(last.mn.local).x < VectorLength(last.pre[last.self])

\* C8: set_property at an index in range followed by get_property at it
\* returns the written value coerced to the element type; the write
\* changes no other element and not the length.
C8_VectorSetGet ==
  C8_Case =>
    /\ last.r.ok
    /\ get_property(heap, alloc, last.self, last.self, last.mn).r
         = CoerceToType(last.value, VectorValueType(last.pre[last.self]))
    /\ VectorLength(heap[last.self]) = VectorLength(last.pre[last.self])
    /\ \A j \in 1..VectorLength(last.pre[last.self]) :
         j # ParseUsize(last.mn.local).x + 1 =>
           heap[last.self].vector[j] = last.pre[last.self].vector[j]

\* a string written to a vector of int, with another element beside it
C8_Witness ==
  /\ C8_Case
  /\ last.value = Str("1")
  /\ VectorValueType(last.pre[last.self]) = "int"
  /\ VectorLength(last.pre[last.self]) = MaxLen
  /\ get_property(heap, alloc, last.self, last.self, last.mn).r = Ok(Num(1))

\* ---- C9 ----------------------------------------------------------------
\* a write that succeeded, by set_property or init_property, to a public
\* index name of a vector, of a value that coerces to Undefined or Null
C9_Case ==
  /\ last.op \in {"set_property", "init_property"}
  /\ as_vector_storage(last.pre, last.self)
  /\ IsPublicName(last.mn)
  /\ ParseUsize(last.mn.local).some
  /\ CoerceToType(last.value, VectorValueType(last.pre[last.self])).v \in {Undefined, Null}
  /\ last.r.ok

\* the element the write stored
C9_Stored == heap[last.self].vector[ParseUsize(last.mn.local).x + 1]

\* C9 as claimed: such a write stores the element type's default value,
\* and the element holds neither Undefined nor Null after it.
C9_DefaultNeverUndefinedOrNull ==
  C9_Case =>
    /\ C9_Stored = VectorDefault(last.pre[last.self])
    /\ C9_Stored \notin {Undefined, Null}

\* C9 as amended: such a write stores the element type's default value at
\* the index; the element is never Undefined after it, and is Null only
\* where Null is the default of the element type.
C9_DefaultStored ==
  C9_Case =>
    /\ ParseUsize(last.mn.local).x < VectorLength(heap[last.self])
    /\ C9_Stored = VectorDefault(last.pre[last.self])
    /\ C9_Stored # Undefined

C9_Witness ==
  /\ C9_Case
  /\ last.op = "init_property"
  /\ last.value = Undefined
  /\ C9_Stored = Null

\* ---- C10 ---------------------------------------------------------------
\* the candidate namespaces of the object for the local name that the
\* multiname's namespace set contains
MatchingCandidates(h, self, mn) ==
  { i \in DOMAIN resolve_ns(h, self, mn.local).v :
      resolve_ns(h, self, mn.local).v[i] \in mn.nsset }

\* C10: resolve_multiname yields an error when more than one of the
\* object's candidate namespaces for the local name is contained in the
\* multiname's namespace set.
C10_AmbiguityIsError ==
  \A self \in Receivers, mn \in Multinames :
    (mn.local # NoLocal /\ Cardinality(MatchingCandidates(heap, self, mn)) > 1)
      => ~resolve_multiname(heap, self, mn).ok

\* ---- C11 ---------------------------------------------------------------
RECURSIVE ChainHasCandidate(_, _, _)
\* some object on the prototype chain from o on has a candidate namespace
\* for the local name that matches the multiname's namespace set: one that
\* is in the set, or any one when the set contains the wildcard
ChainHasCandidate(h, o, mn) ==
  /\ o # NoObj
  /\ mn.local # NoLocal
  /\ \/ \E i \in DOMAIN resolve_ns(h, o, mn.local).v :
          \/ resolve_ns(h, o, mn.local).v[i] \in mn.nsset
          \/ NsAny \in mn.nsset
     \/ ChainHasCandidate(h, proto(h, o), mn)

\* C11: resolve_multiname returns None only if no object on the prototype
\* chain has a candidate namespace for the local name that matches the
\* multiname's namespace set, also when the set contains the wildcard Any.
C11_NoneOnlyIfNoCandidateOnChain ==
  \A self \in Receivers, mn \in Multinames :
    resolve_multiname(heap, self, mn) = Ok(None)
      => ~ChainHasCandidate(heap, self, mn)

\* ---- C12 ---------------------------------------------------------------
\* the names of own value bindings the operation added to the object
GainedNames(self) == DOMAIN heap[self].values \ DOMAIN last.pre[self].values

\* C12: no get_property, set_property, init_property or delete_property
\* gives an instance of a sealed class an own value binding under a name
\* that is not a trait of its class; in particular a write whose multiname
\* resolves only through the prototype chain creates no own binding.
C12_SealedGainsNoBinding ==
  ( /\ last.op \in {"get_property", "set_property", "init_property", "delete_property"}
    /\ instance_is_sealed(last.pre, last.self) )
    => \A name \in GainedNames(last.self) :
         HasInstanceTrait(instance_of(last.pre, last.self), name)

\* ---- C13 ---------------------------------------------------------------
\* a delete_property of the name of a method the object's class declares
\* for its instances, or that the class object declares for itself
C13_Case ==
  /\ last.op = "delete_property"
  /\ Cardinality(last.mn.nsset) = 1
  /\ last.mn.local # NoLocal
  /\ DeclaresMethod(last.pre, last.self, NameOf(last.mn))

C14_LookupFailedInside ==
  /\ last.self # NoObj
  /\ instance_of(last.pre, last.self) \in BrokenClasses
  /\ \/ /\ last.op \in {"get_property", "delete_property"}
        /\ resolve_multiname(last.pre, last.self, last.mn).ok
        /\ resolve_multiname(last.pre, last.self, last.mn).v.some
        /\ ~BaseHasOwnInstantiatedProperty(last.pre[last.self],
              resolve_multiname(last.pre, last.self, last.mn).v.x)
     \/ /\ last.op \in {"set_property", "init_property"}
        /\ write_target(last.pre, last.self, last.self, last.mn, last.value).ok
        /\ write_target(last.pre, last.self, last.self, last.mn, last.value).v.some
     \/ /\ last.op = "call_property"
        /\ resolve_multiname(last.pre, last.self, last.mn).ok
        /\ resolve_multiname(last.pre, last.self, last.mn).v.some
     \/ /\ last.op = "call_method"
        /\ ~BaseGetMethod(last.pre[last.self], last.id).some

\* C14: a failure of a collaborator inside get_property, set_property,
\* init_property, delete_property, call_property or call_method is returned
\* to the caller as a failure; a failing instance_method or class_method
\* lookup inside delete_property makes delete_property fail.
C14_FailuresPropagate ==
  C14_LookupFailedInside => ~last.r.ok

\* ---- C15 ---------------------------------------------------------------
\* a call_method of an id at which the object has no own method, for which
\* its instance class supplies no method and, for a class object, neither
\* does its table of class methods
C15_Case ==
  /\ last.op = "call_method"
  /\ ~BaseGetMethod(last.pre[last.self], last.id).some
  /\ \/ instance_of(last.pre, last.self) = NoClass
     \/ InstanceMethodById(instance_of(last.pre, last.self), last.id) = Ok(None)
  /\ \/ as_class_object(last.pre, last.self) = NoClass
     \/ ClassMethodById(as_class_object(last.pre, last.self), last.id) = Ok(None)

\* C15: call_method of an id that neither own storage nor the instance
\* class nor the class-method table supplies fails with the unknown method
\* id error, invokes nothing and leaves own storage unchanged.
C15_UnknownMethodId ==
  C15_Case => /\ last.r = Err("Cannot call unknown method id")
              /\ heap = last.pre
              /\ alloc = last.prea

\* the miss on an object that has a class to ask and other own methods
C15_Witness ==
  /\ C15_Case
  /\ instance_of(last.pre, last.self) # NoClass
  /\ DOMAIN last.pre[last.self].methods # {}
  /\ ~last.r.ok

\* ---- C16 ---------------------------------------------------------------
\* a set_property or init_property of a multiname without a local name,
\* which resolves nowhere, on an object whose class is not sealed
C16_Case ==
  /\ last.op \in {"set_property", "init_property"}
  /\ ~instance_is_sealed(last.pre, last.self)
  /\ last.mn.local = NoLocal
  /\ ResolvesNowhere(last.pre, last.self, last.mn)

\* C16: set_property and init_property of an unresolved multiname that has
\* no local name fail on an object of a dynamic class or of no class, and
\* leave own storage unchanged: no binding is created.
C16_NamelessWriteFails ==
  C16_Case => /\ last.r = Err("Cannot set undefined property using any name")
              /\ heap = last.pre
              /\ alloc = last.prea

\* the nameless write on an instance of a dynamic class that has own
\* bindings, with the wildcard namespace
C16_Witness ==
  /\ C16_Case
  /\ instance_of(last.pre, last.self) # NoClass
  /\ NsAny \in last.mn.nsset
  /\ DOMAIN last.pre[last.self].values # {}
  /\ ~last.r.ok

\* ---- C17 ---------------------------------------------------------------
\* the object is the class object of a generic class
IsGenericClassObject(h, self) == as_class_object(h, self) \in GenericClasses

\* the applications the object had made before the operation are the ones
\* it still has, each with the class object it had
ApplicationsKept(self) ==
  \A param \in DOMAIN last.pre[self].applications :
    /\ param \in DOMAIN heap[self].applications
    /\ heap[self].applications[param] = last.pre[self].applications[param]

C18_Case ==
  /\ last.op = "delete_property"
  /\ instance_is_sealed(last.pre, last.self)
  /\ ResolvesNowhere(last.pre, last.self, last.mn)

\* C18 as claimed: delete_property of an unresolved multiname on an
\* instance of a sealed class returns an error and leaves own storage
\* unchanged.
C18_SealedDeleteIsError ==
  C18_Case => (~last.r.ok /\ heap = last.pre)

\* C18: delete_property of an unresolved multiname on an instance of a
\* sealed class returns false, which is not an error, and leaves own
\* storage unchanged.
C18_SealedDeleteReturnsFalse ==
  C18_Case => (last.r = Ok(FALSE) /\ heap = last.pre /\ alloc = last.prea)

\* the delete of a name with a local name on a sealed instance that has
\* own bindings
C18_Witness ==
  /\ C18_Case
  /\ last.mn.local # NoLocal
  /\ DOMAIN last.pre[last.self].values # {}
  /\ last.r = Ok(FALSE)

\* ---- C19 ---------------------------------------------------------------
\* every trait of the class table
AllTraits ==
  UNION { { ClassTable[c].itraits[i] : i \in DOMAIN ClassTable[c].itraits }
            \cup { ClassTable[c].ctraits[i] : i \in DOMAIN ClassTable[c].ctraits } :
          c \in ClassIds }

\* the methods the object's class supplies, by name and dispatch id: the
\* instance methods of its class and, for a class object, its class methods
MethodsOf(h, self) ==
  { t \in AllTraits :
      /\ t.kind = "Method"
      /\ \/ /\ instance_of(h, self) # NoClass
            /\ InstanceMethodWhere(instance_of(h, self), ByName(t.name)).some
            /\ InstanceMethodWhere(instance_of(h, self), ByName(t.name)).x.trait = t
         \/ /\ as_class_object(h, self) # NoClass
            /\ FindTrait(ClassTable[as_class_object(h, self)].ctraits, "Method",
                         ByName(t.name)) = Some(t) }

\* the method is materialized in the object's own storage
Materialized(h, self, m) ==
  /\ m.name \in DOMAIN h[self].values
  /\ h[self].values[m.name].k = "method"

\* the operation is a get_property of the method's name or a call_method
\* of its dispatch id
C19_Touches(m) ==
  \/ /\ last.op = "get_property"
     /\ Cardinality(last.mn.nsset) = 1
     /\ last.mn.local # NoLocal
     /\ NameOf(last.mn) = m.name
  \/ /\ last.op = "call_method"
     /\ last.id = m.id

\* C19: over get_property of a method's name and call_method of its
\* dispatch id on one object, the method is materialized at most once: an
\* operation that finds it materialized binds nothing, and a materialized
\* method is found under its name and at its dispatch id.
C19_MaterializedOnce ==
  last.self \in DOMAIN last.pre =>
    \A m \in MethodsOf(last.pre, last.self) :
      C19_Touches(m) =>
        /\ Materialized(last.pre, last.self, m) =>
             (heap = last.pre /\ alloc = last.prea)
        /\ Materialized(heap, last.self, m) =>
             /\ m.id \in DOMAIN heap[last.self].methods
             /\ heap[last.self].values[m.name].id = m.id

\* a call_method that finds the method a get_property materialized
C19_Witness ==
  /\ last.op = "call_method"
  /\ last.r.ok
  /\ \E m \in MethodsOf(last.pre, last.self) :
       /\ C19_Touches(m)
       /\ Materialized(last.pre, last.self, m)
       /\ last.pre[last.self].methods[m.id] = last.pre[last.self].values[m.name].v

\* ---- C20 ---------------------------------------------------------------
\* a call_method of an id at which the object has no own method, for which
\* its instance class supplies a method
C20_Case ==
  /\ last.op = "call_method"
  /\ ~BaseGetMethod(last.pre[last.self], last.id).some
  /\ instance_of(last.pre, last.self) # NoClass
  /\ InstanceMethodById(instance_of(last.pre, last.self), last.id).ok
  /\ InstanceMethodById(instance_of(last.pre, last.self), last.id).v.some

\* the method the instance class supplies for the id of the call
C20_InstanceMethod ==
  InstanceMethodById(instance_of(last.pre, last.self), last.id).v.x.trait

\* C20: on a miss of call_method for which the instance class supplies a
\* method, that method is the one installed at the id and invoked, the
\* class object's own class-method table is not consulted, and one
\* install_method is performed: one function object is bound and one name
\* gains a binding.
C20_InstanceMethodFirst ==
  C20_Case =>
    /\ last.id \in DOMAIN heap[last.self].methods
    /\ heap[last.self].methods[last.id].m = C20_InstanceMethod.m
    /\ GainedNames(last.self) \subseteq {C20_InstanceMethod.name}
    /\ alloc = last.prea + 1

\* ---- C21 ---------------------------------------------------------------
\* the object's own candidate namespaces for the local name of mn, in
\* resolve_ns order
OwnCandidates(h, self, mn) ==
  IF mn.local = NoLocal THEN << >> ELSE resolve_ns(h, self, mn.local).v

\* the positions of the own candidates that are in the namespace set of mn
OwnMatches(h, self, mn) ==
  { i \in DOMAIN OwnCandidates(h, self, mn) :
      OwnCandidates(h, self, mn)[i] \in mn.nsset }

C22_Case ==
  /\ last.op \in {"set_property", "init_property"}
  /\ resolve_multiname(last.pre, last.self, last.mn).ok
  /\ resolve_multiname(last.pre, last.self, last.mn).v.some
  /\ OwnMatches(last.pre, last.self, last.mn) = {}
  /\ NsAny \notin last.mn.nsset

\* the name the prototype chain resolved the multiname to
C22_Name == resolve_multiname(last.pre, last.self, last.mn).v.x

\* C22 as claimed: set_property and init_property modify the storage of
\* no other object than the receiver; when the multiname resolves only
\* through the prototype, the write lands in the object's own storage and
\* a following get_property on the object returns the written value.
C22_WriteIsLocalAsClaimed ==
  /\ last.op \in {"set_property", "init_property"} =>
       \A o \in DOMAIN heap \ {last.self} : heap[o] = last.pre[o]
  /\ C22_Case =>
       /\ last.r.ok
       /\ get_property(heap, alloc, last.self, last.self, last.mn).r = Ok(last.value)

\* C22: set_property and init_property modify the storage of no other
\* object than the receiver; when the multiname resolves only through the
\* prototype, and is not an index name written to a vector object, the
\* write lands in the object's own storage, the prototype chain keeps its
\* bindings, and a following get_property on the object returns the
\* written value.
C22_WriteIsLocal ==
  /\ last.op \in {"set_property", "init_property"} =>
       \A o \in DOMAIN heap \ {last.self} : heap[o] = last.pre[o]
  /\ (C22_Case /\ ~(as_vector_storage(last.pre, last.self) /\ is_index_name(C22_Name))) =>
       /\ last.r.ok
       /\ C22_Name \in DOMAIN heap[last.self].values
       /\ heap[last.self].values[C22_Name].v = last.value
       /\ get_property(heap, alloc, last.self, last.self, last.mn).r = Ok(last.value)

\* the prototype holds the binding with another value, and keeps it
C22_Witness ==
  /\ C22_Case
  /\ C22_Name \in DOMAIN last.pre[2].values
  /\ last.pre[2].values[C22_Name].v # last.value
  /\ heap[2] = last.pre[2]
  /\ C22_Name \in DOMAIN heap[1].values

\* ---- C23 ---------------------------------------------------------------
\* a delete_property of the name of a declared method that own storage does
\* not hold yet
C23_Case ==
  /\ C13_Case
  /\ ~BaseHasOwnInstantiatedProperty(last.pre[last.self], NameOf(last.mn))

\* C23: delete_property of the name of a declared method that has not been
\* materialized returns false, materializes nothing and changes no storage,
\* and a get_property that follows still binds the method lazily: it
\* returns a function bound to the object and stores it under the name.
C23_UnboundMethodSurvivesDelete ==
  C23_Case =>
    /\ last.r = Ok(FALSE)
    /\ heap = last.pre
    /\ alloc = last.prea
    /\ Let(get_property(heap, alloc, last.self, last.self, last.mn), LAMBDA g :
         /\ g.r.ok
         /\ g.r.v.t = "fn"
         /\ g.r.v.recv = last.self
         /\ g.a = alloc + 1
         /\ NameOf(last.mn) \in DOMAIN g.h[last.self].values
         /\ g.h[last.self].values[NameOf(last.mn)].k = "method"
         /\ g.h[last.self].values[NameOf(last.mn)].v = g.r.v)

\* the delete came to a method no get_property or call_method had bound
C23_Witness ==
  /\ C23_Case
  /\ last.r = Ok(FALSE)
  /\ NameOf(last.mn) \notin DOMAIN heap[last.self].values

\* ---- C24 ---------------------------------------------------------------
\* a delete_property that went on to the local delete: the multiname
\* resolved and the name is not that of an unbound method
C24_Case ==
  /\ last.op = "delete_property"
  /\ resolve_multiname(last.pre, last.self, last.mn).ok
  /\ resolve_multiname(last.pre, last.self, last.mn).v.some
  /\ ~is_unbound_method_name(last.pre, last.self,
                             resolve_multiname(last.pre, last.self, last.mn).v.x)

C24_Name == resolve_multiname(last.pre, last.self, last.mn).v.x

\* C24: when delete_property goes on to the local delete, it returns true
\* only if the name was an own property before the call and is no longer an
\* own property after it, on vector objects deleting an index name too.
C24_TrueOnlyIfRemoved ==
  (C24_Case /\ last.r = Ok(TRUE)) =>
    /\ has_own_property(last.pre, last.self, C24_Name).v
    /\ ~has_own_property(heap, last.self, C24_Name).v

\* ---- C25 ---------------------------------------------------------------
\* the multiname resolves, on object `self`, to a name the object owns as a
\* setter without a getter
SetterOnly(h, self, mn) ==
  /\ resolve_multiname(h, self, mn).ok
  /\ resolve_multiname(h, self, mn).v.some
  /\ BaseHasOwnVirtualSetOnlyProperty(h[self], resolve_multiname(h, self, mn).v.x)

\* C25: get_property of a name the object owns only as a setter treats the
\* name as absent on the object: the outcome is that of the prototype's
\* get_property for the same receiver and multiname when there is a
\* prototype, and Undefined, with nothing changed, when there is none.
C25_SetterOnlyIsAbsent ==
  \A self \in DOMAIN heap, mn \in Multinames :
    SetterOnly(heap, self, mn) =>
      IF proto(heap, self) # NoObj
        THEN get_property(heap, alloc, self, self, mn)
               = get_property(heap, alloc, proto(heap, self), self, mn)
        ELSE get_property(heap, alloc, self, self, mn) = Done(heap, alloc, Ok(Undefined))

\* a get_property of the setter's name returned the value the prototype
\* holds under it, while the root of the chain owns the setter and has no
\* prototype
C25_Witness ==
  /\ last.op = "get_property"
  /\ SetterOnly(last.pre, last.self, last.mn)
  /\ last.r = Ok(Num(0))
  /\ \E root \in DOMAIN heap :
       /\ proto(heap, root) = NoObj
       /\ SetterOnly(heap, root, last.mn)

\* ---- C26 ---------------------------------------------------------------
\* C26: has_property(name) is true exactly when the object or its immediate
\* prototype has the name as an own property; an object further up the
\* chain does not count.
C26_HasPropertyOneLevel ==
  last.op = "has_property" =>
    last.r = Ok(\/ has_own_property(last.pre, last.self, last.name).v
                \/ /\ proto(last.pre, last.self) # NoObj
                   /\ has_own_property(last.pre, proto(last.pre, last.self), last.name).v)

\* has_property answered false for a name that only the prototype's
\* prototype owns, and that get_property reads through the chain
C26_Witness ==
  /\ last.op = "has_property"
  /\ last.r = Ok(FALSE)
  /\ proto(heap, last.self) # NoObj
  /\ proto(heap, proto(heap, last.self)) # NoObj
  /\ has_own_property(heap, proto(heap, proto(heap, last.self)), last.name).v
  /\ get_property(heap, alloc, last.self, last.self,
                  Multiname({last.name.ns}, last.name.local)).r = Ok(Num(0))

\* ---- C27 ---------------------------------------------------------------
\* the objects reachable from `self` by one or more proto links
Ancestors(h, self) ==
  { ProtoChain(h, proto(h, self), Cardinality(DOMAIN h))[i] :
      i \in DOMAIN ProtoChain(h, proto(h, self), Cardinality(DOMAIN h)) }

\* the value of the prototype property of the class object that
\* is_instance_of was given
C27_TypeProto ==
  get_property(last.pre, last.prea, last.value.n, last.value.n,
               MultinameOf(DynamicName("prototype"))).r

\* C27: on an acyclic chain has_prototype_in_chain(p) returns true exactly
\* when p is one of the objects reachable from the receiver by one or more
\* proto links, and is_instance_of returns that answer for the object the
\* class object's prototype property refers to, whatever the class of the
\* receiver is.
C27_PrototypeWalkDecides ==
  /\ (walk.op = "has_prototype_in_chain" /\ walk.done /\ Acyclic(heap)) =>
       /\ walk.r[1].ok
       /\ walk.r[1].v = (\E o \in Ancestors(heap, walk.self) : ObjRef(o) = walk.target)
  /\ (last.op = "is_instance_of" /\ C27_TypeProto.ok /\ C27_TypeProto.v.t = "obj") =>
       /\ last.r.ok
       /\ last.r.v = (C27_TypeProto.v.n \in Ancestors(last.pre, last.self))

\* an instance of S, a subclass of A, is no instance of the class object of
\* A, whose prototype is not on the object's prototype chain
C27_Witness ==
  /\ last.op = "is_instance_of"
  /\ last.r.ok
  /\ last.r.v = FALSE
  /\ C27_TypeProto = Ok(ObjRef(2))
  /\ instance_of(heap, last.self) = "S"
  /\ as_class_object(heap, last.value.n) = "A"
  /\ Ancestors(heap, last.self) = {3}

\* ---- C28 ---------------------------------------------------------------
\* the objects a walk that is at object `at` still comes to
Ahead(h, at) ==
  { ProtoChain(h, at, Cardinality(DOMAIN h) + 1)[i] :
      i \in DOMAIN ProtoChain(h, at, Cardinality(DOMAIN h) + 1) }

\* the walk runs on a chain that ends in a cycle
OnCycle(h, at) ==
  at # NoObj /\ Len(ProtoChain(h, at, Cardinality(DOMAIN h) + 1)) > Cardinality(DOMAIN h)

\* object o has a property the multiname matches: an own name in one of
\* the namespaces of its set or, for the any-namespace, any own name
Matches(h, o, mn) ==
  /\ mn.local # NoLocal
  /\ \E i \in DOMAIN resolve_ns(h, o, mn.local).v :
       \/ resolve_ns(h, o, mn.local).v[i] \in mn.nsset
       \/ NsAny \in mn.nsset

\* a call in progress on a cyclic chain that has nothing to find: the
\* target of has_prototype_in_chain is none of the objects ahead, or no
\* object ahead matches the multiname of resolve_multiname or get_property
C28_LostAsClaimed ==
  /\ walk.op # "none"
  /\ ~walk.done
  /\ OnCycle(heap, walk.at)
  /\ IF walk.op = "has_prototype_in_chain"
       THEN \A o \in Ahead(heap, walk.at) : ObjRef(o) # walk.target
       ELSE \A o \in Ahead(heap, walk.at) : ~Matches(heap, o, walk.mn)

\* the same, for a multiname without the any-namespace
C28_Lost ==
  /\ C28_LostAsClaimed
  /\ NsAny \notin walk.mn.nsset

NoRepeat(seen) ==
  \A i, j \in DOMAIN seen : i # j => seen[i] # seen[j]

\* the turns a call in progress has left at most: one for every object a
\* walk has not been at yet, for every get_property call that has not
\* delegated yet
Remaining(h, w) ==
  IF w.done THEN 0
  ELSE IF w.op \in BorrowOps
    THEN CASE w.pc \in {"test"} -> 5
           [] w.pc \in {"bind_instance"} -> 4
           [] w.pc \in {"bind_class", "base", "base_mut"} -> 3
           [] w.pc \in {"lookup", "drop"} -> 2
           [] OTHER -> 1
  ELSE 1 + (Cardinality(DOMAIN h) - Len(w.frames)) * (Cardinality(DOMAIN h) + 1)
         + (Cardinality(DOMAIN h) - Len(w.visited))

\* what the operation of the walk w returns, and the heap it leaves, when
\* it is applied to its receiver in one piece
Whole(h, a, w) ==
  IF w.op = "has_prototype_in_chain"
    THEN Done(h, a, has_prototype_in_chain(h, w.self, w.target))
  ELSE IF w.op = "resolve_multiname"
    THEN Done(h, a, resolve_multiname(h, w.self, w.mn))
  ELSE IF w.op = "get_property_local"
    THEN Done(h, a, get_property_local(h, w.self, w.self, w.name))
  ELSE IF w.op = "set_property_local"
    THEN set_property_local(h, a, w.self, w.self, w.name, w.target)
  ELSE IF w.op = "init_property_local"
    THEN init_property_local(h, a, w.self, w.self, w.name, w.target)
  ELSE IF w.op = "call_method"
    THEN call_method(h, a, w.self, w.id)
  ELSE get_property(h, a, w.self, w.self, w.mn)

\* C29: on an acyclic prototype chain has_prototype_in_chain,
\* resolve_multiname and get_property return: every turn of a call in
\* progress leaves fewer turns to take, and never fewer than none.  Until
\* it returns each walk is at every object at most once: the loop and the
\* resolution walk of each get_property call visit no object twice, and no
\* object's get_property call delegates twice.
C29_WalksEnd ==
  [][ (walk.op # "none" /\ ~walk.done /\ Acyclic(heap)) =>
        /\ walk'.op = walk.op
        /\ NoRepeat(walk'.visited)
        /\ NoRepeat(walk'.frames)
        /\ Remaining(heap', walk') < Remaining(heap, walk)
        /\ Remaining(heap', walk') >= 0
        /\ walk'.done =>
             /\ walk'.r = << Whole(heap, alloc, walk).r >>
             /\ heap' = Whole(heap, alloc, walk).h ]_vars

\* a get_property that was delegated twice, down to the root of the chain,
\* has returned
C29_Witness ==
  /\ walk.op = "get_property"
  /\ walk.done
  /\ Acyclic(heap)
  /\ Len(walk.frames) = 2
  /\ walk.r[1].ok

(***************************************************************************)
(* C30: the order in which install_instance_traits installs.               *)
(***************************************************************************)
RECURSIVE Lineage(_)
\* the classes from the root of the superclass chain down to c
Lineage(c) ==
  IF SuperclassObject(c) = NoClass THEN << c >>
  ELSE Append(Lineage(SuperclassObject(c)), c)

RECURSIVE DeclaredFrom(_, _)
\* the instance traits of the classes line[i], line[i + 1], ..., each class's
\* in the order of its declaration, each with the class that declares it
DeclaredFrom(line, i) ==
  IF i > Len(line) THEN << >>
  ELSE [j \in 1..Len(ClassTable[line[i]].itraits) |->
          [t |-> ClassTable[line[i]].itraits[j], c |-> line[i]]]
       \o DeclaredFrom(line, i + 1)

RootToLeaf(c) == DeclaredFrom(Lineage(c), 1)

RECURSIVE InstalledUpTo(_, _, _, _, _)
\* install_trait applied to order[1], ..., order[k], one after the other
InstalledUpTo(h, a, self, order, k) ==
  IF k = 0 THEN Done(h, a, Ok(Undefined))
  ELSE Let(InstalledUpTo(h, a, self, order, k - 1), LAMBDA before :
         install_trait(before.h, before.a, self, order[k].t, order[k].c))

\* the instance as the allocator hands it to install_instance_traits
C30_Bare == (Fresh :> BaseNew(2, last.value.s)) @@ last.pre

\* C30: install_instance_traits(C) installs the instance traits of C's
\* superclass chain root first and leaf last, those of one class in the order
\* of their declaration: what it leaves is what installing the first k traits
\* of that order leaves, where either k is all of them and the call succeeds,
\* or the first k succeed, the next one fails, nothing after it is installed
\* and the call returns that trait's error.
C30_RootToLeafUntilFailure ==
  last.op = "new_instance" =>
    LET order == RootToLeaf(last.value.s)
    IN  \E k \in 0..Len(order) :
          /\ \A j \in 1..k :
               InstalledUpTo(C30_Bare, last.prea, Fresh, order, j).r.ok
          /\ heap = InstalledUpTo(C30_Bare, last.prea, Fresh, order, k).h
          /\ IF k = Len(order)
               THEN /\ last.r.ok
                    /\ alloc = InstalledUpTo(C30_Bare, last.prea, Fresh, order, k).a
             ELSE Let(InstalledUpTo(C30_Bare, last.prea, Fresh, order, k + 1),
                      LAMBDA failed :
                    /\ ~failed.r.ok
                    /\ ~last.r.ok
                    /\ last.r.err = failed.r.err
                    /\ alloc = failed.a)

\* an instance of F: the slot of the superclass A and F's first slot are
\* installed, F's getter of the name of A's slot fails, F's last slot is
\* never installed
C30_Witness ==
  /\ last.op = "new_instance"
  /\ last.value.s = "F"
  /\ ~last.r.ok
  /\ last.r.err = "Not a virtual property"
  /\ QName(NsPrivate, "x") \in DOMAIN heap[Fresh].values
  /\ heap[Fresh].values[QName(NsPrivate, "x")].k = "slot"
  /\ QName(NsPrivate, "y") \in DOMAIN heap[Fresh].values
  /\ QName(NsPublic, "z") \notin DOMAIN heap[Fresh].values

(***************************************************************************)
(* C31: the slots install_trait reserves.                                  *)
(***************************************************************************)
\* the instance after the k-th trait of its class's order was installed
C31_After(k) ==
  InstalledUpTo(C30_Bare, last.prea, Fresh, RootToLeaf(last.value.s), k)

\* the k-th trait of the order is installed, none before it having failed
C31_Installed(k) ==
  /\ k \in 1..Len(RootToLeaf(last.value.s))
  /\ \A j \in 1..k : C31_After(j).r.ok

\* C31: right after install_trait installed a Slot or Const trait with slot
\* id i and default value v, get_slot(i) returns v, and install_trait
\* returned v; right after it installed a Class or Function trait with slot
\* id i, get_slot(i) returns Undefined, and install_trait returned Undefined.
C31_SlotsReserved ==
  last.op = "new_instance" =>
    \A k \in 1..Len(RootToLeaf(last.value.s)) :
      C31_Installed(k) =>
        LET t == RootToLeaf(last.value.s)[k].t
        IN  /\ t.kind \in {"Slot", "Const"} =>
                 /\ get_slot(C31_After(k).h, Fresh, t.id) = Ok(t.dflt)
                 /\ C31_After(k).r = Ok(t.dflt)
            /\ t.kind \in {"Class", "Function"} =>
                 /\ get_slot(C31_After(k).h, Fresh, t.id) = Ok(Undefined)
                 /\ C31_After(k).r = Ok(Undefined)

\* an instance of T: a slot, a const, a class and a function trait were
\* installed, and each of the four slot ids is read
C31_Witness ==
  /\ last.op = "new_instance"
  /\ last.value.s = "T"
  /\ last.r.ok
  /\ { RootToLeaf("T")[k].t.kind : k \in 1..4 } = {"Slot", "Const", "Class", "Function"}
  /\ get_slot(heap, Fresh, 1) = Ok(Num(1))
  /\ get_slot(heap, Fresh, 2) = Ok(Num(2))
  /\ get_slot(heap, Fresh, 3) = Ok(Undefined)
  /\ get_slot(heap, Fresh, 4) = Ok(Undefined)

(***************************************************************************)
(* C32: methods are not bound at installation.                             *)
(***************************************************************************)
\* none of the methods the object's class supplies is in its own storage
C32_Unbound(h, o) ==
  \A m \in MethodsOf(h, o) : ~Materialized(h, o, m)

\* the multiname names the method
C32_Names(mn, m) ==
  /\ mn.local = m.name.local
  /\ (m.name.ns \in mn.nsset \/ NsAny \in mn.nsset)

\* the step is a call_method of the method's dispatch id on the object,
\* performed at once or followed statement by statement, or a get_property
\* of the method's name: called by the interpreter, issued by call_property
\* for the function it is to call or by get_enumerant_value for the public
\* name of the enumerant, or followed along the prototype chain
C32_Reads(o, m) ==
  \/ /\ last'.op = "call_method"
     /\ last'.self = o
     /\ last'.id = m.id
  \/ /\ walk'.op = "call_method"
     /\ walk'.self = o
     /\ walk'.id = m.id
  \/ /\ last'.op \in {"get_property", "call_property"}
     /\ C32_Names(last'.mn, m)
     /\ heap' = get_property(heap, alloc, last'.self, last'.self, last'.mn).h
  \/ /\ last'.op = "get_enumerant_value"
     /\ m.name.ns = NsPublic
     /\ heap' = get_property(heap, alloc, last'.self, last'.self,
                             Multiname({NsPublic}, m.name.local)).h
  \/ /\ walk'.op = "get_property"
     /\ C32_Names(walk'.mn, m)

\* the installation just made installed every Method trait by returning
\* Undefined and leaving the object as it was
C32_MethodTraitsInert ==
  \A k \in 1..Len(RootToLeaf(last.value.s)) :
    (C31_Installed(k) /\ RootToLeaf(last.value.s)[k].t.kind = "Method") =>
      /\ C31_After(k).r = Ok(Undefined)
      /\ C31_After(k).h = C31_After(k - 1).h
      /\ C31_After(k).a = C31_After(k - 1).a

C33_Locals == { p[1] : p \in IndexNames } \cup {"x"}

\* how often the namespace is listed
Occurrences(ns_set, ns) == Cardinality({ i \in DOMAIN ns_set : ns_set[i] = ns })

\* the vector objects of the heap
Vectors(h) == { o \in DOMAIN h : as_vector_storage(h, o) }

\* C33: in every state of a vector object, resolve_ns of a local name that
\* parses as an index below the vector's length lists the public namespace
\* exactly once; for an index name without a base binding it lists the
\* public namespace only then, and nothing else; has_own_property of a
\* public index name is true exactly when the index is in range.
C33_IndexNamespaces ==
  \A o \in Vectors(heap) :
    \A local \in C33_Locals :
      ParseUsize(local).some =>
        LET index == ParseUsize(local).x
            in_range == index < VectorLength(heap[o])
            ns_set == resolve_ns(heap, o, local).v
        IN  /\ resolve_ns(heap, o, local).ok
            /\ in_range => Occurrences(ns_set, NsPublic) = 1
            /\ BaseResolveNs(heap[o], local).v = << >> =>
                 ns_set = IF in_range THEN << NsPublic >> ELSE << >>
            /\ has_own_property(heap, o, QName(NsPublic, local)).ok
            /\ has_own_property(heap, o, QName(NsPublic, local)).v = in_range

\* a vector that a write made longer, holding a base binding private::0:
\* the name 0 resolves to the private and the public namespace, the name
\* of its length to none
C33_Witness ==
  /\ last.op \in {"set_property", "init_property"}
  /\ as_vector_storage(heap, 1)
  /\ VectorLength(heap[1]) = VectorLength(last.pre[1]) + 1
  /\ QName(NsPrivate, "0") \in DOMAIN heap[1].values
  /\ resolve_ns(heap, 1, "0").v = << NsPrivate, NsPublic >>
  /\ resolve_ns(heap, 1, DecimalString(VectorLength(heap[1]))).v = << >>
  /\ ~has_own_property(heap, 1, QName(NsPublic, DecimalString(VectorLength(heap[1])))).v

(***************************************************************************)
(* C34: the enumeration of a vector.                                       *)
(***************************************************************************)
\* C34: an enumeration of a vector of length L, started at index 0, yields
\* the indices 1, 2, ..., L in this order and then None, whatever bindings
\* the base storage holds; get_enumerant_name(i) is the number i - 1 for
\* 1 <= i <= L, and get_enumerant_name(0) is Undefined.
C34_VectorEnumeration ==
  /\ (cursor.self # NoObj /\ as_vector_storage(heap, cursor.self)) =>
       /\ cursor.seen = [i \in 1..Len(cursor.seen) |-> i]
       /\ Len(cursor.seen) <= VectorLength(heap[cursor.self])
       /\ cursor.done => Len(cursor.seen) = VectorLength(heap[cursor.self])
       /\ get_next_enumerant(heap, cursor.self, Len(cursor.seen)) =
            IF Len(cursor.seen) < VectorLength(heap[cursor.self])
              THEN Ok(Some(Len(cursor.seen) + 1))
              ELSE Ok(None)
  /\ \A o \in Vectors(heap) :
       /\ get_enumerant_name(heap, o, 0) = Ok(Undefined)
       /\ \A i \in 1..VectorLength(heap[o]) :
            get_enumerant_name(heap, o, i) = Ok(Num(i - 1))

\* a finished enumeration of a vector of two elements whose base storage
\* holds bindings
C34_Witness ==
  /\ cursor.self = 1
  /\ as_vector_storage(heap, 1)
  /\ cursor.done
  /\ cursor.seen = << 1, 2 >>
  /\ VectorLength(heap[1]) = 2
  /\ DOMAIN heap[1].values # {}
  /\ get_enumerant_name(heap, 1, 2) = Ok(Num(1))

(***************************************************************************)
(* C35: the value of a vector's enumerant.                                 *)
(***************************************************************************)
\* the multiname get_enumerant_value reads for the index: the public name
\* that get_enumerant_name gives
C35_Name(h, o, index) ==
  MultinameOf(DynamicName(CoerceToString(get_enumerant_name(h, o, index).v).v))

\* a get_enumerant_value, on a vector, of an index that get_next_enumerant
\* returns
C35_Case ==
  /\ last.op = "get_enumerant_value"
  /\ as_vector_storage(last.pre, last.self)
  /\ last.id \in 1..VectorLength(last.pre[last.self])

\* C35: for every index i that get_next_enumerant returns on a vector,
\* get_enumerant_value(i) is get_property of the public name that
\* get_enumerant_name(i) gives, and returns the element at position i - 1:
\* never Undefined, never an error.
C35_EnumerantValueIsElement ==
  /\ C35_Case =>
       /\ last.r.ok
       /\ last.r.v = last.pre[last.self].vector[last.id]
       /\ last.r.v # Undefined
       /\ heap = last.pre
  /\ \A o \in Vectors(heap) :
       \A i \in 1..VectorLength(heap[o]) :
         /\ get_next_enumerant(heap, o, i - 1) = Ok(Some(i))
         /\ get_enumerant_value(heap, alloc, o, i)
              = get_property(heap, alloc, o, o, C35_Name(heap, o, i))
         /\ C35_Name(heap, o, i) = Multiname({NsPublic}, DecimalString(i - 1))
         /\ get_enumerant_value(heap, alloc, o, i).r = Ok(heap[o].vector[i])

\* the value of the last enumerant of a vector of two elements, after a
\* write changed that element
C35_Witness ==
  /\ C35_Case
  /\ last.id = 2
  /\ VectorLength(last.pre[last.self]) = 2
  /\ last.r.ok
  /\ last.r.v = last.pre[last.self].vector[2]
  /\ last.r.v \notin {VectorDefault(last.pre[last.self]), Undefined}

(***************************************************************************)
(* C36: what get_property changes.                                         *)
(***************************************************************************)
\* the object differs from what it was before the operation in one method
\* binding only: a method of its class, under a name that was no own
\* binding of it, and the entry of the method table that goes with it
C36_MethodInstalled(o) ==
  \E m \in MethodsOf(last.pre, o) :
    /\ m.name \notin DOMAIN last.pre[o].values
    /\ DOMAIN heap[o].values = DOMAIN last.pre[o].values \cup {m.name}
    /\ \A q \in DOMAIN last.pre[o].values : heap[o].values[q] = last.pre[o].values[q]
    /\ heap[o].values[m.name].k = "method"
    /\ heap[o].values[m.name].id = m.id
    /\ [heap[o] EXCEPT !.values = last.pre[o].values, !.methods = last.pre[o].methods]
         = last.pre[o]

\* the class of the object supplies a method of that name
C36_Supplies(h, o, name) == \E m \in MethodsOf(h, o) : m.name = name

\* C36: get_property changes an object's own bindings only by installing a
\* lazily bound method of its class: a get of a name that does not resolve
\* (Undefined on a dynamic object), of a name that is an instantiated own
\* binding already, or of a name for which the object's class supplies no
\* method leaves the object's own bindings as they were.
C36_GetChangesOnlyLazyMethods ==
  last.op = "get_property" =>
    LET resolved == resolve_multiname(last.pre, last.self, last.mn)
    IN  /\ DOMAIN heap = DOMAIN last.pre
        /\ \A o \in DOMAIN last.pre :
             heap[o] # last.pre[o] => C36_MethodInstalled(o)
        /\ Cardinality({ o \in DOMAIN last.pre : heap[o] # last.pre[o] }) <= 1
        /\ (resolved.ok /\ ~resolved.v.some) =>
             /\ heap = last.pre
             /\ ~instance_is_sealed(last.pre, last.self) => last.r = Ok(Undefined)
        /\ (/\ resolved.ok
            /\ resolved.v.some
            /\ \/ resolved.v.x \in DOMAIN last.pre[last.self].values
               \/ ~C36_Supplies(last.pre, last.self, resolved.v.x)) =>
             heap[last.self] = last.pre[last.self]

\* a get of a name that does not resolve, on a dynamic object that already
\* holds a method a get installed: Undefined, and nothing changes
C36_Witness ==
  /\ last.op = "get_property"
  /\ ~instance_is_sealed(last.pre, last.self)
  /\ resolve_multiname(last.pre, last.self, last.mn) = Ok(None)
  /\ last.r = Ok(Undefined)
  /\ heap = last.pre
  /\ \E m \in MethodsOf(last.pre, last.self) : Materialized(last.pre, last.self, m)

(***************************************************************************)
(* C37: index names never reach the base storage of a vector.              *)
(***************************************************************************)
\* the public names whose local name parses as an index
C37_IndexNames == { QName(NsPublic, p[1]) : p \in IndexNames }

\* heap h2 differs from heap h1 at most in the vector storage of object o
C37_OnlyVector(h1, h2, o) ==
  /\ DOMAIN h2 = DOMAIN h1
  /\ \A x \in DOMAIN h1 : x # o => h2[x] = h1[x]
  /\ [h2[o] EXCEPT !.vector = h1[o].vector] = h1[o]

\* C37: on a vector, set_property_local, init_property_local and
\* delete_property_local of a public name whose local name parses as an
\* index never add, change or remove a binding of the base storage: only
\* the vector storage can change, and delete changes nothing at all.
C37_IndexWritesSpareBase ==
  /\ \A o \in Vectors(heap) :
       \A name \in C37_IndexNames :
         /\ \A value \in WrittenValues :
              /\ C37_OnlyVector(heap, set_property_local(heap, alloc, o, o, name, value).h, o)
              /\ C37_OnlyVector(heap, init_property_local(heap, alloc, o, o, name, value).h, o)
         /\ delete_property_local(heap, alloc, o, name).h = heap
  /\ (/\ last.op \in {"set_property", "init_property", "delete_property"}
      /\ as_vector_storage(last.pre, last.self)
      /\ IsPublicName(last.mn)
      /\ ParseUsize(last.mn.local).some) =>
       /\ C37_OnlyVector(last.pre, heap, last.self)
       /\ last.op = "delete_property" => heap = last.pre

\* a write that appends to a vector whose base storage holds bindings
C37_Witness ==
  /\ last.op \in {"set_property", "init_property"}
  /\ as_vector_storage(last.pre, last.self)
  /\ IsPublicName(last.mn)
  /\ ParseUsize(last.mn.local).some
  /\ last.r.ok
  /\ VectorLength(heap[last.self]) = VectorLength(last.pre[last.self]) + 1
  /\ DOMAIN heap[last.self].values # {}
  /\ heap[last.self].values = last.pre[last.self].values

(***************************************************************************)
(* C38: the enumerable names of a vector.                                  *)
(***************************************************************************)
\* a property_is_enumerable, on a vector, of a public name, answered true
C38_Case ==
  /\ last.op = "property_is_enumerable"
  /\ as_vector_storage(last.pre, last.self)
  /\ last.name.ns = NsPublic
  /\ last.r.v = TRUE

\* C38: on a vector, property_is_enumerable of a public name implies
\* has_own_property of it: the local name is an index strictly below the
\* vector's length.
C38_EnumerableIsOwn ==
  /\ C38_Case =>
       /\ has_own_property(last.pre, last.self, last.name).v
       /\ ParseUsize(last.name.local).some
       /\ ParseUsize(last.name.local).x < VectorLength(last.pre[last.self])
  /\ \A o \in Vectors(heap) :
       \A local \in C33_Locals :
         property_is_enumerable(heap, o, QName(NsPublic, local)) =>
           has_own_property(heap, o, QName(NsPublic, local)).v

(***************************************************************************)
(* C39: the borrows held when user code is invoked.                        *)
(***************************************************************************)
\* the borrow-checked cell: code invoked while `held` is outstanding can
\* read the storage unless it is borrowed exclusively, and write it only
\* when it is not borrowed at all
CanRead(held) == held # "exclusive"
CanWrite(held) == held = "none"

\* C39: no borrow, shared or exclusive, of the receiver's storage is
\* outstanding at the moment get_property_local invokes a getter,
\* set_property_local or init_property_local a setter, or call_method a
\* method object: the invoked code can read and write the receiver's
\* properties without a borrow conflict.
C39_NoBorrowAtInvocation ==
  walk.op \in BorrowOps =>
    \A i \in DOMAIN walk.invoked :
      /\ walk.invoked[i] = "none"
      /\ CanRead(walk.invoked[i])
      /\ CanWrite(walk.invoked[i])

(***************************************************************************)
(* C40: the receiver of a lazily bound method.                             *)
(***************************************************************************)
\* the method bindings in the own storage of object o; every one of them
\* was installed by a lazy binding
C40_Bound(h, o) ==
  { qn \in DOMAIN h[o].values : h[o].values[qn].k = "method" }

\* C40: every lazily bound method in the own storage of an object is bound
\* to that object as its receiver, also when it was materialized while a
\* get_property issued on another object was delegated along the prototype
\* chain: a method cached on a prototype is bound to no descendant.
C40_BoundToOwner ==
  \A o \in DOMAIN heap :
    \A qn \in C40_Bound(heap, o) :
      heap[o].values[qn].v.recv = o

====
